---------------------------- MODULE Spec2Model ----------------------------
(***************************************************************************)
(* Verification model of the freePDF core:                                 *)
(*   - the page-range expression engine (src/src/utils/range.ts 1-109)     *)
(*   - the canvas <-> PDF coordinate transform (range.ts 383-502)          *)
(*   - the render coordinator (src/src/core/workerManager.ts) with its     *)
(*     worker (src/src/workers/render.worker.ts)                           *)
(*   - the foreground SVG renderer (src/src/core/pdfLoader.ts)             *)
(*   - the crop editor (CanvasViewer in src/unnamed/part_002, CropOverlay  *)
(*     in src/src/components/CropOverlay.tsx, the store in part_007)       *)
(*   - the document cache of the worker (render.worker.ts 9-35)            *)
(*   - the page list of the store with PDF export and split (part_007,     *)
(*     ExportModal.tsx, SplitModal in part_004)                            *)
(*   - the load effects of CanvasViewer and ThumbnailItem (part_002)       *)
(* Strings are sequences of one-character strings; numbers of the          *)
(* coordinate transform are exact rationals <<numerator, denominator>>.    *)
(***************************************************************************)
EXTENDS Integers, Sequences, FiniteSets, TLC

VARIABLES
  kind,        \* which inputs the run was given: "expr", "list" or a transform
  pc,          \* which operation has run last on the current inputs
  expr,        \* parsePageExpr / validatePageExpr input: the expression text
  maxPage,     \* parsePageExpr / validatePageExpr input: the page count
  pages,       \* formatPageRange input: a list of 1-based page numbers
  parsed,      \* value returned by parsePageExpr
  validation,  \* value returned by validatePageExpr
  formatted,   \* value returned by formatPageRange
  geo,         \* coordinate-transform inputs: page, viewport, rects, container
  geoOut,      \* coordinate-transform results
  workerSupported,  \* WorkerManager.workerSupported
  workerFailed,     \* WorkerManager.workerFailed
  worker,           \* WorkerManager.worker: 0 is null, n > 0 the n-th Worker created
  messageId,        \* WorkerManager.messageId
  pendingMessages,  \* keys of WorkerManager.pendingMessages
  timers,           \* message ids whose setTimeout timer is armed
  posted,           \* messages handed to Worker.postMessage
  calls,            \* the renderPage / exportPages / loadDocument calls made so far
  platform,         \* what the browser does: whether "new Worker" and postMessage throw
  terminated,       \* the Worker objects terminate() was called on
  svgRun,           \* one renderPageToSVG call: its inputs, position and result
  cropDraft,        \* store.cropDraft: <<>> (undefined) or <<[page, rect]>>
  currentPage,      \* store.currentPage: -1 is null
  viewportState,    \* CanvasViewer viewport state: <<>> (null) or <<viewport>>
  isDragging,       \* CanvasViewer isDragging state
  dragStart,        \* CanvasViewer dragStart state: <<>> (null) or <<[x, y]>>
  dragRect,         \* CanvasViewer dragRect state: <<>> (null) or <<rect>>
  overlay,          \* CropOverlay state: isDragging, dragHandle, dragStart
  adjusted,         \* the rectangle the last CropOverlay mouse move computed
  cleared,          \* Escape or clear happened and no canvas mouse-down since
  documentCache,    \* render.worker documentCache: a set of [hash, doc]
  requests,         \* the getDocument calls of the worker, in order of arrival
  cleanupTimers,    \* the armed cache cleanup timers: the time each has run
  quiet,            \* the time since the worker received its last message
  cacheClears,      \* how often the cleanup timer has cleared the cache
  storePages,       \* store.pages.length: the pages of the open document
  pageOrder,        \* store.pageOrder: 0-based page indices in display order
  selection,        \* store.selection: a set of page indices
  exported,         \* the download of the open export or split dialog
  mounted,          \* the image component (CanvasViewer, ThumbnailItem) is mounted
  viewInputs,       \* the dependencies of its load effect: document and page
  renderedImage,    \* its image state: <<>> (null) or <<bitmap>>
  viewError,        \* its error state: <<>> (null) or <<failed load>>
  effects,          \* the runs of its load effect, each with its cancelled flag
  closed,           \* the bitmaps close() was called on
  inbox,            \* the messages the worker received, with the handler's position
  outbox,           \* the responses the worker posted, in order
  svgGraphicsCtor,  \* the cached vector renderer: 0 (null) or the strategy it came from
  svgLoaders,       \* what each acquisition strategy does in this run
  ensureCalls       \* the ensureSvgGraphics calls: position, strategies tried, outcome

rangeVars == <<expr, maxPage, pages, parsed, validation, formatted>>
geoVars   == <<geo, geoOut>>
coordVars == <<workerSupported, workerFailed, worker, messageId, pendingMessages, timers, posted, calls, platform,
               terminated>>
cropVars  == <<cropDraft, currentPage, viewportState, isDragging, dragStart, dragRect, overlay, adjusted, cleared>>
cacheVars == <<documentCache, requests, cleanupTimers, quiet, cacheClears>>
storeVars == <<storePages, pageOrder, selection, exported>>
viewVars  == <<mounted, viewInputs, renderedImage, viewError, effects, closed>>
msgVars   == <<inbox, outbox>>
acquireVars == <<svgGraphicsCtor, svgLoaders, ensureCalls>>
vars      == <<kind, pc, expr, maxPage, pages, parsed, validation, formatted, geo, geoOut, coordVars, svgRun, cropVars,
               cacheVars, storeVars, viewVars, msgVars, acquireVars>>

\* Value of a result that has not been computed yet.
None == "none"

\* The coordinator as constructed on a platform without OffscreenCanvas and
\* never called: its state in the runs that exercise other modules.
CoordUnused ==
  /\ workerSupported = FALSE
  /\ workerFailed = FALSE
  /\ worker = 0
  /\ messageId = 0
  /\ pendingMessages = {}
  /\ timers = {}
  /\ posted = {}
  /\ calls = <<>>
  /\ terminated = {}
  /\ platform = [offscreen |-> FALSE, createThrows |-> FALSE, postThrows |-> FALSE]

\* No renderPageToSVG call is made in the run.
SvgUnused == svgRun = None

\* CropOverlay as mounted: useState(false), useState(null), useState(null)
OverlayIdle == [isDragging |-> FALSE, dragHandle |-> None, dragStart |-> <<>>]

\* The store and CanvasViewer with no document open.
CropUnused ==
  /\ cropDraft = <<>>
  /\ currentPage = 0 - 1
  /\ viewportState = <<>>
  /\ isDragging = FALSE
  /\ dragStart = <<>>
  /\ dragRect = <<>>
  /\ overlay = OverlayIdle
  /\ adjusted = <<>>
  /\ cleared = FALSE

\* The worker has received no message.
CacheUnused ==
  /\ documentCache = {}
  /\ requests = <<>>
  /\ cleanupTimers = {}
  /\ quiet = 0
  /\ cacheClears = 0

\* The page list of the store with no document open (initialState).
StoreUnused ==
  /\ storePages = 0
  /\ pageOrder = <<>>
  /\ selection = {}
  /\ exported = <<>>

\* The worker has handled no message.
MsgUnused ==
  /\ inbox = <<>>
  /\ outbox = <<>>

\* No vector renderer was asked for.
AcquireUnused ==
  /\ svgGraphicsCtor = 0
  /\ svgLoaders = <<>>
  /\ ensureCalls = <<>>

\* No image component is mounted.
ViewUnused ==
  /\ mounted = FALSE
  /\ viewInputs = 0
  /\ renderedImage = <<>>
  /\ viewError = <<>>
  /\ effects = <<>>
  /\ closed = {}

(***************************************************************************)
(* Bounds of the model.                                                    *)
(***************************************************************************)
\* longest enumerated expression text
MaxLen == 4
\* largest page count tried with the enumerated expressions
MaxPage == 3
\* largest page number in an enumerated formatPageRange input
MaxListPage == 11
\* largest viewport width and height, in pixels
MaxView == 2
\* largest media box width and height, in points
MaxBox == 2
\* largest distance of a drag from its origin, in pixels
MaxDrag == 3

(***************************************************************************)
(* JavaScript string primitives used by range.ts.                          *)
(***************************************************************************)
Digits == <<"0", "1", "2", "3", "4", "5", "6", "7", "8", "9">>

IsDigit(c) == \E i \in 1..10 : Digits[i] = c

DigitVal(c) == (CHOOSE i \in 1..10 : Digits[i] = c) - 1

\* ECMAScript WhiteSpace / LineTerminator characters that occur in the model
IsSpace(c) == c = " "

Max(a, b) == IF a >= b THEN a ELSE b

Min(a, b) == IF a <= b THEN a ELSE b

RECURSIVE TrimStart(_)
TrimStart(s) ==
  IF s # <<>> /\ IsSpace(Head(s)) THEN TrimStart(Tail(s)) ELSE s

RECURSIVE TrimEnd(_)
TrimEnd(s) ==
  IF s # <<>> /\ IsSpace(s[Len(s)]) THEN TrimEnd(SubSeq(s, 1, Len(s) - 1)) ELSE s

\* String.prototype.trim
Trim(s) == TrimEnd(TrimStart(s))

\* String.prototype.includes for a one-character needle
Includes(s, c) == \E i \in 1..Len(s) : s[i] = c

\* String.prototype.split for a one-character separator: n separators give
\* n + 1 pieces, empty pieces included
RECURSIVE Split(_, _)
Split(s, sep) ==
  IF ~Includes(s, sep) THEN <<s>>
  ELSE LET i == CHOOSE k \in 1..Len(s) :
                  s[k] = sep /\ \A j \in 1..(k - 1) : s[j] # sep
       IN <<SubSeq(s, 1, i - 1)>> \o Split(SubSeq(s, i + 1, Len(s)), sep)

\* Array.prototype.map(s => s.trim())
RECURSIVE MapTrim(_)
MapTrim(ss) ==
  IF ss = <<>> THEN <<>> ELSE <<Trim(Head(ss))>> \o MapTrim(Tail(ss))

\* Array.prototype.filter(Boolean) on strings: the empty string is falsy
RECURSIVE FilterNonEmpty(_)
FilterNonEmpty(ss) ==
  IF ss = <<>> THEN <<>>
  ELSE IF Head(ss) = <<>> THEN FilterNonEmpty(Tail(ss))
  ELSE <<Head(ss)>> \o FilterNonEmpty(Tail(ss))

\* Array.prototype.join
RECURSIVE Join(_, _)
Join(ss, sep) ==
  IF ss = <<>> THEN <<>>
  ELSE IF Len(ss) = 1 THEN Head(ss)
  ELSE Head(ss) \o sep \o Join(Tail(ss), sep)

\* A JavaScript number produced by parseInt: NaN, or an integer
NaN == [nan |-> TRUE, val |-> 0]

Num(n) == [nan |-> FALSE, val |-> n]

isNaN(v) == v.nan

\* value of the longest digit prefix of s, accumulated in acc
RECURSIVE DigitPrefixValue(_, _)
DigitPrefixValue(s, acc) ==
  IF s # <<>> /\ IsDigit(Head(s))
  THEN DigitPrefixValue(Tail(s), acc * 10 + DigitVal(Head(s)))
  ELSE acc

\* parseInt(s, 10): skip leading white space, read an optional sign, then the
\* longest prefix of decimal digits; NaN when that prefix is empty; whatever
\* follows the digits is ignored
parseInt(s) ==
  LET t    == TrimStart(s)
      neg  == t # <<>> /\ Head(t) = "-"
      body == IF t # <<>> /\ Head(t) \in {"-", "+"} THEN Tail(t) ELSE t
  IN IF body = <<>> \/ ~IsDigit(Head(body)) THEN NaN
     ELSE IF neg THEN Num(0 - DigitPrefixValue(body, 0))
     ELSE Num(DigitPrefixValue(body, 0))

\* Number.prototype.toString of a natural number
RECURSIVE NatToStr(_)
NatToStr(n) ==
  IF n < 10 THEN <<Digits[n + 1]>>
  ELSE NatToStr(n \div 10) \o <<Digits[(n % 10) + 1]>>

\* Number.prototype.toString of an integer
toString(n) == IF n < 0 THEN <<"-">> \o NatToStr(0 - n) ELSE NatToStr(n)

\* Set.prototype.add on a Set kept as its insertion-ordered element list
SetAdd(set, v) ==
  IF \E i \in 1..Len(set) : set[i] = v THEN set ELSE Append(set, v)

\* for (let i = lo; i <= hi; i++) result.add(i)
RECURSIVE AddRange(_, _, _)
AddRange(set, lo, hi) ==
  IF lo > hi THEN set ELSE AddRange(SetAdd(set, lo), lo + 1, hi)

\* insertion of v into an ascending list
RECURSIVE InsertSorted(_, _)
InsertSorted(v, sorted) ==
  IF sorted = <<>> THEN <<v>>
  ELSE IF v <= Head(sorted) THEN <<v>> \o sorted
  ELSE <<Head(sorted)>> \o InsertSorted(v, Tail(sorted))

\* Array.prototype.sort((a, b) => a - b)
RECURSIVE SortAsc(_)
SortAsc(list) ==
  IF list = <<>> THEN <<>> ELSE InsertSorted(Head(list), SortAsc(Tail(list)))


(***************************************************************************)
(* range.ts: parsePageExpr, validatePageExpr, formatPageRange.             *)
(***************************************************************************)
\* ParsePart without the upper bound test of the single-page branch
ParsePart_NoUpperBound(part, max, result) ==
  IF Includes(part, "-")
  THEN LET pieces   == MapTrim(Split(part, "-"))
           startStr == pieces[1]
           endStr   == pieces[2]
           start    == IF startStr # <<>> THEN parseInt(startStr) ELSE Num(1)
           end      == IF endStr # <<>> THEN parseInt(endStr) ELSE Num(max)
       IN IF isNaN(start) \/ isNaN(end) THEN result
          ELSE AddRange(result, Max(1, start.val), Min(max, end.val))
  ELSE LET page == parseInt(part)
       IN IF ~isNaN(page) /\ page.val >= 1
          THEN SetAdd(result, page.val)
          ELSE result

\* ParsePart reading an omitted end as the start ("a-" as "a")
ParsePart_OpenEndIsStart(part, max, result) ==
  IF Includes(part, "-")
  THEN LET pieces   == MapTrim(Split(part, "-"))
           startStr == pieces[1]
           endStr   == pieces[2]
           start    == IF startStr # <<>> THEN parseInt(startStr) ELSE Num(1)
           end      == IF endStr # <<>> THEN parseInt(endStr) ELSE start
       IN IF isNaN(start) \/ isNaN(end) THEN result
          ELSE AddRange(result, Max(1, start.val), Min(max, end.val))
  ELSE LET page == parseInt(part)
       IN IF ~isNaN(page) /\ page.val >= 1 /\ page.val <= max
          THEN SetAdd(result, page.val)
          ELSE result

\* one iteration of the loop of parsePageExpr (range.ts 15-35)
ParsePart(part, max, result) ==
  IF Includes(part, "-")
  THEN LET pieces   == MapTrim(Split(part, "-"))
           startStr == pieces[1]
           endStr   == pieces[2]
           start    == IF startStr # <<>> THEN parseInt(startStr) ELSE Num(1)
           end      == IF endStr # <<>> THEN parseInt(endStr) ELSE Num(max)
       IN IF isNaN(start) \/ isNaN(end) THEN result
          ELSE AddRange(result, Max(1, start.val), Min(max, end.val))
  ELSE LET page == parseInt(part)
       IN IF ~isNaN(page) /\ page.val >= 1 /\ page.val <= max
          THEN SetAdd(result, page.val)
          ELSE result

\* the loop leaving at the first part with a NaN side (break for continue)
RECURSIVE ParseParts_BreakOnNaN(_, _, _)
ParseParts_BreakOnNaN(parts, max, result) ==
  IF parts = <<>> THEN result
  ELSE LET part   == Head(parts)
           pieces == MapTrim(Split(part, "-"))
           bad    == IF Includes(part, "-")
                     THEN \/ pieces[1] # <<>> /\ isNaN(parseInt(pieces[1]))
                          \/ pieces[2] # <<>> /\ isNaN(parseInt(pieces[2]))
                     ELSE isNaN(parseInt(part))
       IN IF bad THEN result
          ELSE ParseParts_BreakOnNaN(Tail(parts), max, ParsePart(part, max, result))

\* for (const part of parts) { ... }
RECURSIVE ParseParts(_, _, _)
ParseParts(parts, max, result) ==
  IF parts = <<>> THEN result
  ELSE ParseParts(Tail(parts), max, ParsePart(Head(parts), max, result))

\* expr.split(',').map(s => s.trim()).filter(Boolean)
PartsOf(e) == FilterNonEmpty(MapTrim(Split(e, ",")))

parsePageExpr(e, max) ==
  IF Trim(e) = <<>> THEN <<>>
  ELSE SortAsc(ParseParts(PartsOf(e), max, <<>>))

\* the error texts of validatePageExpr (range.ts 59, 65, 69)
ErrEmpty       == "expression must not be empty"
ErrNoPages     == "no valid page number found"
ErrFormat      == "malformed page expression"

\* validatePageExpr accepting every non-blank expression
validatePageExpr_NonBlankIsValid(e, max) ==
  IF Trim(e) = <<>> THEN [valid |-> FALSE, error |-> ErrEmpty]
  ELSE [valid |-> TRUE, error |-> None]

\* parsePageExpr has no throw statement, so the catch branch (range.ts 68-70)
\* is never taken
validatePageExpr(e, max) ==
  IF Trim(e) = <<>> THEN [valid |-> FALSE, error |-> ErrEmpty]
  ELSE IF Len(parsePageExpr(e, max)) = 0
       THEN [valid |-> FALSE, error |-> ErrNoPages]
       ELSE [valid |-> TRUE, error |-> None]

\* RunText writing a run of two pages as a range
RunText_PairAsRange(start, end) ==
  IF start = end THEN toString(start)
  ELSE toString(start) \o <<"-">> \o toString(end)

\* the text pushed for one run start..end (range.ts 88-94 and 100-106)
RunText(start, end) ==
  IF start = end THEN toString(start)
  ELSE IF end = start + 1 THEN toString(start) \o <<",">> \o toString(end)
  ELSE toString(start) \o <<"-">> \o toString(end)

\* the loop without the push of the last run (range.ts 99-106 left out)
RECURSIVE FormatLoop_DropLastRun(_, _, _, _, _)
FormatLoop_DropLastRun(sorted, i, start, end, ranges) ==
  IF i > Len(sorted) THEN ranges
  ELSE IF sorted[i] = end + 1
       THEN FormatLoop_DropLastRun(sorted, i + 1, start, sorted[i], ranges)
       ELSE FormatLoop_DropLastRun(sorted, i + 1, sorted[i], sorted[i],
                                   Append(ranges, RunText(start, end)))

\* the loop of formatPageRange from index i on (range.ts 84-106)
RECURSIVE FormatLoop(_, _, _, _, _)
FormatLoop(sorted, i, start, end, ranges) ==
  IF i > Len(sorted) THEN Append(ranges, RunText(start, end))
  ELSE IF sorted[i] = end + 1
       THEN FormatLoop(sorted, i + 1, start, sorted[i], ranges)
       ELSE FormatLoop(sorted, i + 1, sorted[i], sorted[i],
                       Append(ranges, RunText(start, end)))

formatPageRange(list) ==
  IF Len(list) = 0 THEN <<>>
  ELSE LET sorted == SortAsc(list)
       IN Join(FormatLoop(sorted, 2, sorted[1], sorted[1], <<>>), <<",">>)


(***************************************************************************)
(* The range engine as a state machine: one run draws its inputs, then     *)
(* applies the operations the way ExportModal and SplitModal call them.    *)
(***************************************************************************)
\* the characters of the enumerated expression texts
Alphabet == {"0", "1", "3", ",", "-", " ", "x"}

Texts(n) == UNION {[1..k -> Alphabet] : k \in 0..n}

\* the documented examples: <<expression, maxPage>>
ExampleInputs ==
  { << <<"1", ",", "3", ",", "5", "-", "8", ",", "1", "0", "-">>, 12 >>,
    << <<"-", "3">>, 10 >>,
    << <<"5", "-">>, 10 >>,
    << <<" ", "2", " ", "-", " ", "4", " ", ",", "7">>, 9 >> }

RECURSIVE Reverse(_)
Reverse(list) ==
  IF list = <<>> THEN <<>> ELSE Append(Reverse(Tail(list)), Head(list))

RECURSIVE SetMax(_)
SetMax(S) == CHOOSE m \in S : \A x \in S : x <= m

\* a set of page numbers in ascending order
RECURSIVE Ascending(_)
Ascending(S) ==
  IF S = {} THEN <<>>
  ELSE LET m == SetMax(S) IN Append(Ascending(S \ {m}), m)

\* page lists without duplicates, as a page order or a sorted selection gives
\* them (ExportModal.tsx 43-46)
PageLists ==
  UNION { {Ascending(S), Reverse(Ascending(S))} : S \in SUBSET (1..MaxListPage) }

NoValidation == [valid |-> FALSE, error |-> None]

RangeInit ==
  /\ CoordUnused
  /\ SvgUnused
  /\ CropUnused
  /\ CacheUnused
  /\ StoreUnused
  /\ ViewUnused
  /\ MsgUnused
  /\ AcquireUnused
  /\ geo = None
  /\ geoOut = None
  /\ parsed = <<>>
  /\ validation = NoValidation
  /\ formatted = <<>>
  /\ \/ /\ kind = "expr"
        /\ pc = "input"
        /\ pages = <<>>
        /\ \/ expr \in Texts(MaxLen) /\ maxPage \in 0..MaxPage
           \/ \E ex \in ExampleInputs : expr = ex[1] /\ maxPage = ex[2]
     \/ /\ kind = "list"
        /\ pc = "list"
        /\ expr = <<>>
        /\ pages \in PageLists
        /\ maxPage \in {n \in 0..MaxListPage : \A i \in 1..Len(pages) : pages[i] <= n}

\* const pages1Based = parsePageExpr(pageRange, pages.length)
ParsePageExpr ==
  /\ kind \in {"expr", "list"}
  /\ pc \in {"input", "formatted"}
  /\ parsed' = parsePageExpr(expr, maxPage)
  /\ pc' = "parsed"
  /\ UNCHANGED <<kind, expr, maxPage, pages, validation, formatted, geo, geoOut, coordVars, svgRun, cropVars, cacheVars, storeVars, viewVars, msgVars, acquireVars>>

\* const rangeValidation = validatePageExpr(pageRange, pages.length)
ValidatePageExpr ==
  /\ kind \in {"expr", "list"}
  /\ pc \in {"input", "formatted"}
  /\ validation' = validatePageExpr(expr, maxPage)
  /\ pc' = "validated"
  /\ UNCHANGED <<kind, expr, maxPage, pages, parsed, formatted, geo, geoOut, coordVars, svgRun, cropVars, cacheVars, storeVars, viewVars, msgVars, acquireVars>>

\* useState(() => formatPageRange(selectedPages.map(i => i + 1))): the text
\* becomes the expression that is validated and parsed afterwards
FormatPageRange ==
  /\ kind = "list"
  /\ pc = "list"
  /\ formatted' = formatPageRange(pages)
  /\ expr' = formatPageRange(pages)
  /\ pc' = "formatted"
  /\ UNCHANGED <<kind, maxPage, pages, parsed, validation, geo, geoOut, coordVars, svgRun, cropVars, cacheVars, storeVars, viewVars, msgVars, acquireVars>>

RangeNext == ParsePageExpr \/ ValidatePageExpr \/ FormatPageRange

RangeSpec == RangeInit /\ [][RangeNext]_vars


(***************************************************************************)
(* Properties of the range engine.                                         *)
(***************************************************************************)
StrictlyAscending(list) ==
  \A i \in 1..Len(list) : \A j \in 1..Len(list) : i < j => list[i] < list[j]

Range(list) == {list[i] : i \in 1..Len(list)}

\* C1: whatever the expression and maxPage >= 0, the list parsePageExpr
\* returns is strictly ascending (so it has no duplicates) and every element
\* lies in 1..maxPage; out-of-range numbers are dropped.
C1_ParsedAscendingInRange ==
  pc = "parsed" =>
    /\ StrictlyAscending(parsed)
    /\ \A i \in 1..Len(parsed) : 1 <= parsed[i] /\ parsed[i] <= maxPage

\* "3,1" with two pages: 3 is dropped, 1 is kept
C1_Witness ==
  /\ pc = "parsed"
  /\ expr = <<"3", ",", "1">>
  /\ maxPage = 2
  /\ parsed = <<1>>

AllDigits(s) == s # <<>> /\ \A i \in 1..Len(s) : IsDigit(s[i])

RECURSIVE DecimalValue(_)
DecimalValue(s) ==
  IF s = <<>> THEN 0
  ELSE DecimalValue(SubSeq(s, 1, Len(s) - 1)) * 10 + DigitVal(s[Len(s)])

DashCount(t) == Cardinality({i \in 1..Len(t) : t[i] = "-"})

\* the text left and right of the only dash of a term
LeftOfDash(t) ==
  Trim(SubSeq(t, 1, (CHOOSE i \in 1..Len(t) : t[i] = "-") - 1))

RightOfDash(t) ==
  Trim(SubSeq(t, (CHOOSE i \in 1..Len(t) : t[i] = "-") + 1, Len(t)))

\* a term of the grammar: n, a-b, a- or -b
GrammarTerm(t) ==
  \/ AllDigits(t)
  \/ /\ DashCount(t) = 1
     /\ \/ AllDigits(LeftOfDash(t)) /\ AllDigits(RightOfDash(t))
        \/ AllDigits(LeftOfDash(t)) /\ RightOfDash(t) = <<>>
        \/ LeftOfDash(t) = <<>> /\ AllDigits(RightOfDash(t))

\* the pages a term of the grammar denotes
TermPages(t, max) ==
  IF AllDigits(t) THEN {DecimalValue(t)} \cap (1..max)
  ELSE LET a == IF LeftOfDash(t) = <<>> THEN 1 ELSE DecimalValue(LeftOfDash(t))
           b == IF RightOfDash(t) = <<>> THEN max ELSE DecimalValue(RightOfDash(t))
       IN (a..b) \cap (1..max)

GrammarExpr(e) ==
  \A i \in 1..Len(Split(e, ",")) : GrammarTerm(Trim(Split(e, ",")[i]))

ExprPages(e, max) ==
  UNION {TermPages(Trim(Split(e, ",")[i]), max) : i \in 1..Len(Split(e, ","))}

\* C2: for an expression made of terms of the grammar, parsePageExpr returns
\* the sorted union of the terms' pages ({n}, a..b, a..maxPage, 1..b, each cut
\* to 1..maxPage), white space around terms and the dash ignored; the three
\* documented examples give the documented lists.
C2_ParsedIsUnionOfTerms ==
  pc = "parsed" =>
    /\ GrammarExpr(expr) => parsed = Ascending(ExprPages(expr, maxPage))
    /\ (expr = <<"1", ",", "3", ",", "5", "-", "8", ",", "1", "0", "-">> /\ maxPage = 12)
         => parsed = <<1, 3, 5, 6, 7, 8, 10, 11, 12>>
    /\ (expr = <<"-", "3">> /\ maxPage = 10) => parsed = <<1, 2, 3>>
    /\ (expr = <<"5", "-">> /\ maxPage = 10) => parsed = <<5, 6, 7, 8, 9, 10>>

C2_Witness ==
  /\ pc = "parsed"
  /\ expr = <<"1", ",", "3", ",", "5", "-", "8", ",", "1", "0", "-">>
  /\ GrammarExpr(expr)
  /\ maxPage = 12
  /\ parsed = <<1, 3, 5, 6, 7, 8, 10, 11, 12>>

\* a term the parser cannot read: a side that is required (a bare term, or a
\* non-empty side of a dash term) does not start with a number
UnparsableTerm(t) ==
  IF Includes(t, "-")
  THEN LET l == Trim(Split(t, "-")[1])
           r == Trim(Split(t, "-")[2])
       IN (l # <<>> /\ isNaN(parseInt(l))) \/ (r # <<>> /\ isNaN(parseInt(r)))
  ELSE isNaN(parseInt(t))

RECURSIVE DropUnparsable(_)
DropUnparsable(terms) ==
  IF terms = <<>> THEN <<>>
  ELSE IF Trim(Head(terms)) # <<>> /\ UnparsableTerm(Trim(Head(terms)))
       THEN DropUnparsable(Tail(terms))
       ELSE <<Head(terms)>> \o DropUnparsable(Tail(terms))

\* the expression with every unparsable term removed
WithoutUnparsable(e) == Join(DropUnparsable(Split(e, ",")), <<",">>)

HasUnparsable(e) ==
  \E i \in 1..Len(Split(e, ",")) :
     Trim(Split(e, ",")[i]) # <<>> /\ UnparsableTerm(Trim(Split(e, ",")[i]))

\* C3: an unparsable term contributes nothing and does not stop the parse:
\* the result is that of the expression without its unparsable terms; the
\* empty and the blank expression give the empty list.
C3_BestEffortPerTerm ==
  pc = "parsed" =>
    /\ parsed = parsePageExpr(WithoutUnparsable(expr), maxPage)
    /\ (HasUnparsable(expr) /\ GrammarExpr(WithoutUnparsable(expr))) =>
         parsed = Ascending(ExprPages(WithoutUnparsable(expr), maxPage))
    /\ Trim(expr) = <<>> => parsed = <<>>

\* "x,1": the first term is skipped, the second still parsed
C3_Witness ==
  /\ pc = "parsed"
  /\ expr = <<"x", ",", "1">>
  /\ HasUnparsable(expr)
  /\ WithoutUnparsable(expr) = <<"1">>
  /\ maxPage = 2
  /\ parsed = <<1>>

\* C4: a sorted list of distinct pages, all <= maxPage, is recovered by
\* parsing what formatPageRange made of it.
C4_RangeRoundTrip ==
  (pc = "parsed" /\ kind = "list" /\ StrictlyAscending(pages)) => parsed = pages

C4_Witness ==
  /\ pc = "parsed"
  /\ kind = "list"
  /\ pages = <<1, 2, 4, 5, 6, 9, 10, 11>>
  /\ expr = <<"1", ",", "2", ",", "4", "-", "6", ",", "9", "-", "1", "1">>
  /\ parsed = pages

\* the first numbers of the maximal runs of consecutive numbers of S
RunStarts(S) == {a \in S : (a - 1) \notin S}

\* the last number of the maximal run that starts at a
RunEnd(S, a) == CHOOSE b \in S : (a..b) \subseteq S /\ (b + 1) \notin S /\ b >= a

\* how a maximal run is to be written
ExpectedRunText(a, b) ==
  IF b = a THEN toString(a)
  ELSE IF b = a + 1 THEN toString(a) \o <<",">> \o toString(b)
  ELSE toString(a) \o <<"-">> \o toString(b)

RECURSIVE ExpectedRuns(_, _)
ExpectedRuns(S, starts) ==
  IF starts = <<>> THEN <<>>
  ELSE <<ExpectedRunText(Head(starts), RunEnd(S, Head(starts)))>>
         \o ExpectedRuns(S, Tail(starts))

ExpectedFormat(S) == Join(ExpectedRuns(S, Ascending(RunStarts(S))), <<",">>)

\* C5: formatPageRange writes the maximal runs of consecutive pages in
\* ascending order, separated by commas: "a" for one page, "a,b" for two,
\* "a-b" for three or more; the empty list gives the empty text.
C5_FormatMaximalRuns ==
  pc = "formatted" =>
    /\ formatted = ExpectedFormat(Range(pages))
    /\ pages = <<>> => formatted = <<>>

\* an unsorted page order with a run of one, of two and of three pages
C5_Witness ==
  /\ pc = "formatted"
  /\ pages = <<8, 6, 5, 4, 2, 1>>
  /\ formatted = <<"1", ",", "2", ",", "4", "-", "6", ",", "8">>

\* C6: validatePageExpr reports valid exactly when parsePageExpr returns a
\* page; a blank expression is rejected with the "empty" error, a non-blank
\* one without pages with the different "no valid pages" error.
C6_ValidIffPagesFound ==
  pc = "validated" =>
    /\ validation.valid <=> Len(parsePageExpr(expr, maxPage)) > 0
    /\ Trim(expr) = <<>> =>
         ~validation.valid /\ validation.error = ErrEmpty
    /\ (Trim(expr) # <<>> /\ Len(parsePageExpr(expr, maxPage)) = 0) =>
         ~validation.valid /\ validation.error = ErrNoPages
    /\ validation.valid => validation.error = None
    /\ ErrEmpty # ErrNoPages

C6_Witness ==
  /\ pc = "validated"
  /\ expr = <<"3", "-", "1">>
  /\ maxPage = 3
  /\ validation = [valid |-> FALSE, error |-> ErrNoPages]


(***************************************************************************)
(* Exact arithmetic for the coordinate transform: a number is a rational   *)
(* <<n, d>> with d > 0 and gcd(n, d) = 1, so equal numbers are equal       *)
(* values.  Division by zero does not occur: boxes, viewports and pages    *)
(* have positive width and height.                                         *)
(***************************************************************************)
Abs(n) == IF n < 0 THEN 0 - n ELSE n

RECURSIVE GCD(_, _)
GCD(a, b) == IF b = 0 THEN a ELSE GCD(b, a % b)

Rat(n, d) ==
  LET g == GCD(Abs(n), Abs(d))
  IN IF d < 0 THEN <<(0 - n) \div g, (0 - d) \div g>> ELSE <<n \div g, d \div g>>

\* the integer n as a number
R(n) == <<n, 1>>

RAdd(a, b) == Rat(a[1] * b[2] + b[1] * a[2], a[2] * b[2])

RSub(a, b) == Rat(a[1] * b[2] - b[1] * a[2], a[2] * b[2])

RMul(a, b) == Rat(a[1] * b[1], a[2] * b[2])

RDiv(a, b) == Rat(a[1] * b[2], a[2] * b[1])

RLess(a, b) == a[1] * b[2] < b[1] * a[2]

RLeq(a, b) == a[1] * b[2] <= b[1] * a[2]

\* Math.abs
RAbs(a) == <<Abs(a[1]), a[2]>>

\* Math.min of two numbers
RMin(a, b) == IF RLess(b, a) THEN b ELSE a

\* a ?? b on an optional value kept as <<>> (undefined) or <<v>>
Coalesce(opt, default) == IF opt = <<>> THEN default ELSE opt[1]

(***************************************************************************)
(* coords: canvasRectToPdfRect, pdfRectToCanvasRect, normalizeRect,        *)
(* calculateViewport (range.ts 383-483).                                   *)
(***************************************************************************)
\* canvasRectToPdfRect without the flip of the Y axis
canvasRectToPdfRect_NoFlip(rectCanvas, page, viewport) ==
  LET baseBox == Coalesce(page.cropBox, page.mediaBox)
      scaleX  == RDiv(baseBox.width, viewport.width)
      scaleY  == RDiv(baseBox.height, viewport.height)
  IN [x      |-> RAdd(baseBox.x, RMul(rectCanvas.x, scaleX)),
      y      |-> RAdd(baseBox.y, RMul(rectCanvas.y, scaleY)),
      width  |-> RMul(rectCanvas.w, scaleX),
      height |-> RMul(rectCanvas.h, scaleY)]

canvasRectToPdfRect(rectCanvas, page, viewport) ==
  LET baseBox   == Coalesce(page.cropBox, page.mediaBox)
      scaleX    == RDiv(baseBox.width, viewport.width)
      scaleY    == RDiv(baseBox.height, viewport.height)
      relativeX == rectCanvas.x
      relativeY == rectCanvas.y
      width     == RMul(rectCanvas.w, scaleX)
      height    == RMul(rectCanvas.h, scaleY)
      x         == RAdd(baseBox.x, RMul(relativeX, scaleX))
      y         == RAdd(baseBox.y,
                        RSub(baseBox.height,
                             RMul(RAdd(relativeY, rectCanvas.h), scaleY)))
  IN [x |-> x, y |-> y, width |-> width, height |-> height]

\* pdfRectToCanvasRect measuring from the media box although a crop box is set
pdfRectToCanvasRect_MediaOrigin(rectPdf, page, viewport) ==
  LET baseBox == Coalesce(page.cropBox, page.mediaBox)
      scaleX  == RDiv(viewport.width, baseBox.width)
      scaleY  == RDiv(viewport.height, baseBox.height)
  IN [x |-> RMul(RSub(rectPdf.x, page.mediaBox.x), scaleX),
      y |-> RMul(RSub(RSub(baseBox.height, RSub(rectPdf.y, page.mediaBox.y)),
                      rectPdf.height), scaleY),
      w |-> RMul(rectPdf.width, scaleX),
      h |-> RMul(rectPdf.height, scaleY)]

pdfRectToCanvasRect(rectPdf, page, viewport) ==
  LET baseBox == Coalesce(page.cropBox, page.mediaBox)
      scaleX  == RDiv(viewport.width, baseBox.width)
      scaleY  == RDiv(viewport.height, baseBox.height)
      width   == RMul(rectPdf.width, scaleX)
      height  == RMul(rectPdf.height, scaleY)
      x       == RMul(RSub(rectPdf.x, baseBox.x), scaleX)
      y       == RMul(RSub(RSub(baseBox.height, RSub(rectPdf.y, baseBox.y)),
                           rectPdf.height), scaleY)
  IN [x |-> x, y |-> y, w |-> width, h |-> height]

\* normalizeRect taking absolute sizes without moving the origin
normalizeRect_KeepOrigin(rect) ==
  [x |-> rect.x, y |-> rect.y, w |-> RAbs(rect.w), h |-> RAbs(rect.h)]

normalizeRect(rect) ==
  [x |-> IF RLess(rect.w, R(0)) THEN RAdd(rect.x, rect.w) ELSE rect.x,
   y |-> IF RLess(rect.h, R(0)) THEN RAdd(rect.y, rect.h) ELSE rect.y,
   w |-> RAbs(rect.w),
   h |-> RAbs(rect.h)]

\* the default of the padding parameter of calculateViewport
DefaultPadding == 20
\* the padding CanvasViewer passes
ViewerPadding == 40
\* the largest scale calculateViewport chooses
MaxScale == 2

\* calculateViewport without the cap of the scale
calculateViewport_NoCap(page, containerWidth, containerHeight, padding) ==
  LET scaleX == RDiv(RSub(containerWidth, RMul(padding, R(2))), page.width)
      scaleY == RDiv(RSub(containerHeight, RMul(padding, R(2))), page.height)
      scale  == RMin(scaleX, scaleY)
  IN [width   |-> RMul(page.width, scale),
      height  |-> RMul(page.height, scale),
      scale   |-> scale,
      offsetX |-> RDiv(RSub(containerWidth, RMul(page.width, scale)), R(2)),
      offsetY |-> RDiv(RSub(containerHeight, RMul(page.height, scale)), R(2))]

calculateViewport(page, containerWidth, containerHeight, padding) ==
  LET availableWidth  == RSub(containerWidth, RMul(padding, R(2)))
      availableHeight == RSub(containerHeight, RMul(padding, R(2)))
      scaleX          == RDiv(availableWidth, page.width)
      scaleY          == RDiv(availableHeight, page.height)
      scale           == RMin(RMin(scaleX, scaleY), R(MaxScale))
      width           == RMul(page.width, scale)
      height          == RMul(page.height, scale)
      offsetX         == RDiv(RSub(containerWidth, width), R(2))
      offsetY         == RDiv(RSub(containerHeight, height), R(2))
  IN [width |-> width, height |-> height, scale |-> scale,
      offsetX |-> offsetX, offsetY |-> offsetY]


(***************************************************************************)
(* The coordinate transform as a state machine: one run draws a page, a    *)
(* viewport and a rectangle, then applies the conversions the way          *)
(* CanvasViewer (drag, normalize, convert) and CropOverlay (convert back   *)
(* and forth) call them.                                                   *)
(***************************************************************************)
PdfBox(x, y, width, height) ==
  [x |-> R(x), y |-> R(y), width |-> R(width), height |-> R(height)]

CanvasBox(x, y, w, h) == [x |-> R(x), y |-> R(y), w |-> R(w), h |-> R(h)]

\* lower-left corners of the media boxes tried
MediaOrigins == {<<0, 0>>, <<1, 2>>}

MediaBoxes ==
  {PdfBox(o[1], o[2], w, h) : o \in MediaOrigins, w \in 1..MaxBox, h \in 1..MaxBox}

\* the boxes with positive size inside m, at whole points
BoxesInside(m) ==
  {b \in {PdfBox(x, y, w, h) :
            x \in m.x[1]..(m.x[1] + m.width[1]), y \in m.y[1]..(m.y[1] + m.height[1]),
            w \in 1..m.width[1], h \in 1..m.height[1]} :
     /\ b.x[1] + b.width[1] <= m.x[1] + m.width[1]
     /\ b.y[1] + b.height[1] <= m.y[1] + m.height[1]}

\* cropBox: undefined, or a box inside the media box that differs from it
\* (pdfLoader.ts 44-49)
CropChoices(m) == {<<>>} \cup {<<b>> : b \in BoxesInside(m) \ {m}}

\* PdfPageMeta at rotation 0: width and height are those of the visible box
PageMeta(m, c) ==
  [width    |-> Coalesce(c, m).width,
   height   |-> Coalesce(c, m).height,
   mediaBox |-> m,
   cropBox  |-> c]

Viewports == {[width |-> R(w), height |-> R(h)] : w \in 1..MaxView, h \in 1..MaxView}

\* the rectangles at whole coordinates inside a width x height area at (x0, y0)
RectsInside(x0, y0, width, height) ==
  {r \in [x : x0..(x0 + width), y : y0..(y0 + height), w : 0..width, h : 0..height] :
     r.x + r.w <= x0 + width /\ r.y + r.h <= y0 + height}

\* rectangles of a drag in progress: the size may be negative
DragRects ==
  {CanvasBox(x, y, w, h) :
     x \in {0, MaxDrag}, y \in {1, MaxDrag}, w \in (0 - MaxDrag)..MaxDrag,
     h \in (0 - MaxDrag)..MaxDrag}

\* containerWidth and containerHeight tried with a padding: from too small
\* for the padding to large enough for the cap, and the documented 2000
ContainerSizes(padding) ==
  {0, 2000} \cup {2 * padding + d : d \in (0 - 1)..(2 * MaxBox + 1)}

NoGeoOut == [pdf |-> None, canvas |-> None, back |-> None, viewport |-> None]

GeoInit ==
  /\ CoordUnused
  /\ SvgUnused
  /\ CropUnused
  /\ CacheUnused
  /\ StoreUnused
  /\ ViewUnused
  /\ MsgUnused
  /\ AcquireUnused
  /\ expr = <<>>
  /\ maxPage = 0
  /\ pages = <<>>
  /\ parsed = <<>>
  /\ validation = NoValidation
  /\ formatted = <<>>
  /\ pc = "input"
  /\ geoOut = NoGeoOut
  /\ \/ /\ kind = "canvas"
        /\ \E m \in MediaBoxes : \E c \in CropChoices(m) : \E v \in Viewports :
             \E r \in RectsInside(0, 0, v.width[1], v.height[1]) :
               geo = [page |-> PageMeta(m, c), viewport |-> v,
                      rect |-> CanvasBox(r.x, r.y, r.w, r.h)]
     \/ /\ kind = "pdf"
        /\ \E m \in MediaBoxes : \E c \in CropChoices(m) : \E v \in Viewports :
             \E r \in RectsInside(Coalesce(c, m).x[1], Coalesce(c, m).y[1],
                                  Coalesce(c, m).width[1], Coalesce(c, m).height[1]) :
               geo = [page |-> PageMeta(m, c), viewport |-> v,
                      rect |-> PdfBox(r.x, r.y, r.w, r.h)]
     \/ /\ kind = "drag"
        /\ \E r \in DragRects : geo = [rect |-> r]
     \/ /\ kind = "viewport"
        /\ \/ \E w \in 1..MaxBox : \E h \in 1..MaxBox :
                \E padding \in {DefaultPadding, ViewerPadding} :
                  \E cw \in ContainerSizes(padding) : \E ch \in ContainerSizes(padding) :
                    geo = [page |-> PageMeta(PdfBox(0, 0, w, h), <<>>),
                           containerWidth |-> R(cw), containerHeight |-> R(ch),
                           padding |-> R(padding)]
           \/ geo = [page |-> PageMeta(PdfBox(0, 0, 10, 10), <<>>),
                     containerWidth |-> R(2000), containerHeight |-> R(2000),
                     padding |-> R(DefaultPadding)]

\* handleMouseUp: canvasRectToPdfRect(normalizedRect, page, viewport);
\* CropOverlay.handleMouseMove: canvasRectToPdfRect(newRect, page, viewport)
CanvasRectToPdfRect ==
  /\ \/ /\ kind = "canvas"
        /\ pc = "input"
        /\ geoOut' = [geoOut EXCEPT
                        !.pdf = canvasRectToPdfRect(geo.rect, geo.page, geo.viewport)]
        /\ pc' = "pdfRect"
     \/ /\ kind = "pdf"
        /\ pc = "canvasRect"
        /\ geoOut' = [geoOut EXCEPT
                        !.back = canvasRectToPdfRect(geoOut.canvas, geo.page, geo.viewport)]
        /\ pc' = "roundTrip"
  /\ UNCHANGED <<kind, geo, expr, maxPage, pages, parsed, validation, formatted, coordVars, svgRun, cropVars, cacheVars, storeVars, viewVars, msgVars, acquireVars>>

\* CropOverlay: pdfRectToCanvasRect(cropRect, page, viewport)
PdfRectToCanvasRect ==
  /\ \/ /\ kind = "pdf"
        /\ pc = "input"
        /\ geoOut' = [geoOut EXCEPT
                        !.canvas = pdfRectToCanvasRect(geo.rect, geo.page, geo.viewport)]
        /\ pc' = "canvasRect"
     \/ /\ kind = "canvas"
        /\ pc = "pdfRect"
        /\ geoOut' = [geoOut EXCEPT
                        !.back = pdfRectToCanvasRect(geoOut.pdf, geo.page, geo.viewport)]
        /\ pc' = "roundTrip"
  /\ UNCHANGED <<kind, geo, expr, maxPage, pages, parsed, validation, formatted, coordVars, svgRun, cropVars, cacheVars, storeVars, viewVars, msgVars, acquireVars>>

\* handleMouseUp: normalizeRect(dragRect); applied again to its own result
NormalizeRect ==
  /\ kind = "drag"
  /\ \/ /\ pc = "input"
        /\ geoOut' = [geoOut EXCEPT !.canvas = normalizeRect(geo.rect)]
        /\ pc' = "normalized"
     \/ /\ pc = "normalized"
        /\ geoOut' = [geoOut EXCEPT !.back = normalizeRect(geoOut.canvas)]
        /\ pc' = "renormalized"
  /\ UNCHANGED <<kind, geo, expr, maxPage, pages, parsed, validation, formatted, coordVars, svgRun, cropVars, cacheVars, storeVars, viewVars, msgVars, acquireVars>>

\* CanvasViewer: calculateViewport(page, clientWidth, clientHeight, 40)
CalculateViewport ==
  /\ kind = "viewport"
  /\ pc = "input"
  /\ geoOut' = [geoOut EXCEPT
                  !.viewport = calculateViewport(geo.page, geo.containerWidth,
                                                 geo.containerHeight, geo.padding)]
  /\ pc' = "viewport"
  /\ UNCHANGED <<kind, geo, expr, maxPage, pages, parsed, validation, formatted, coordVars, svgRun, cropVars, cacheVars, storeVars, viewVars, msgVars, acquireVars>>

GeoNext ==
  CanvasRectToPdfRect \/ PdfRectToCanvasRect \/ NormalizeRect \/ CalculateViewport

GeoSpec == GeoInit /\ [][GeoNext]_vars


(***************************************************************************)
(* Properties of the coordinate transform.                                 *)
(***************************************************************************)
\* the base box of a page: the crop box when there is one, else the media box
BaseBoxOf(page) == IF page.cropBox = <<>> THEN page.mediaBox ELSE page.cropBox[1]

\* the PDF rectangle the documented formulas give for canvas rectangle r
ExpectedPdfRect(r, page, viewport) ==
  LET b == BaseBoxOf(page)
      W == viewport.width
      H == viewport.height
  IN [x      |-> RAdd(b.x, RDiv(RMul(r.x, b.width), W)),
      y      |-> RAdd(b.y, RSub(b.height, RDiv(RMul(RAdd(r.y, r.h), b.height), H))),
      width  |-> RDiv(RMul(r.w, b.width), W),
      height |-> RDiv(RMul(r.h, b.height), H)]

C8_CoordinateRoundTrip ==
  (kind \in {"canvas", "pdf"} /\ pc = "roundTrip") => geoOut.back = geo.rect

C8_Witness ==
  /\ kind = "pdf"
  /\ pc = "roundTrip"
  /\ geo.page.cropBox # <<>>
  /\ geo.page.cropBox[1].y # geo.page.mediaBox.y
  /\ geo.rect.width = R(1)
  /\ geoOut.canvas.w = <<1, 2>>
  /\ geoOut.back = geo.rect

\* C9: calculateViewport takes the smallest of (containerWidth - 2*padding) /
\* page.width, (containerHeight - 2*padding) / page.height and 2 as the scale,
\* so the scale is at most 2, and centres the page; a 10 x 10 page in a
\* 2000 x 2000 container gets the scale 2.
C9_ViewportScaleCapped ==
  (kind = "viewport" /\ pc = "viewport") =>
    LET v      == geoOut.viewport
        two    == R(2)
        scaleX == RDiv(RSub(geo.containerWidth, RMul(two, geo.padding)), geo.page.width)
        scaleY == RDiv(RSub(geo.containerHeight, RMul(two, geo.padding)), geo.page.height)
    IN /\ v.scale \in {scaleX, scaleY, two}
       /\ RLeq(v.scale, scaleX) /\ RLeq(v.scale, scaleY) /\ RLeq(v.scale, two)
       /\ v.width = RMul(geo.page.width, v.scale)
       /\ v.height = RMul(geo.page.height, v.scale)
       /\ RAdd(v.offsetX, RAdd(v.width, v.offsetX)) = geo.containerWidth
       /\ RAdd(v.offsetY, RAdd(v.height, v.offsetY)) = geo.containerHeight
       /\ (/\ geo.page.width = R(10) /\ geo.page.height = R(10)
           /\ geo.containerWidth = R(2000) /\ geo.containerHeight = R(2000))
            => v.scale = two

C9_Witness ==
  /\ kind = "viewport"
  /\ pc = "viewport"
  /\ geo.page.width = R(10)
  /\ geo.page.height = R(10)
  /\ geo.containerWidth = R(2000)
  /\ geo.containerHeight = R(2000)
  /\ geo.padding = R(20)
  /\ geoOut.viewport.scale = R(2)
  /\ geoOut.viewport.offsetX = R(990)

\* C10: normalizeRect gives w >= 0 and h >= 0 and the same region (origin at
\* the lower coordinate, absolute size), also for negative w and h, and
\* applying it to its own result changes nothing.
C10_NormalizeIdempotent ==
  kind = "drag" =>
    /\ pc \in {"normalized", "renormalized"} =>
         LET r == geo.rect
             n == geoOut.canvas
         IN /\ RLeq(R(0), n.w) /\ RLeq(R(0), n.h)
            /\ n.x = RMin(r.x, RAdd(r.x, r.w))
            /\ n.y = RMin(r.y, RAdd(r.y, r.h))
            /\ {n.x, RAdd(n.x, n.w)} = {r.x, RAdd(r.x, r.w)}
            /\ {n.y, RAdd(n.y, n.h)} = {r.y, RAdd(r.y, r.h)}
    /\ pc = "renormalized" => geoOut.back = geoOut.canvas

\* a drag up and to the left: both sizes negative
C10_Witness ==
  /\ kind = "drag"
  /\ pc = "renormalized"
  /\ geo.rect = CanvasBox(MaxDrag, MaxDrag, 0 - 2, 0 - 1)
  /\ geoOut.canvas = CanvasBox(MaxDrag - 2, MaxDrag - 1, 2, 1)
  /\ geoOut.back = geoOut.canvas


(***************************************************************************)
(* The render coordinator (src/src/core/workerManager.ts) and the worker   *)
(* it talks to (src/src/workers/render.worker.ts).  A document buffer is   *)
(* "good" (a PDF of DocPages pages) or "bad" (pdf.js cannot load it); a    *)
(* rendering is identified by the page and the format it shows.  A call    *)
(* record keeps, next to the call's arguments and position, what happened  *)
(* to it: the worker and message it used, why the background path failed,  *)
(* whether it ran in the foreground, and how its promise settled.          *)
(***************************************************************************)
\* number of coordinator calls made in one run
MaxCalls == 2
\* page count of the loadable document
DocPages == 4
\* the largest value Date.now() returns in one run
MaxClock == 1

Buffers == {"good", "bad"}

Task(page, format) == [page |-> page, format |-> format]

\* pdfjsLib.getDocument({data}).promise resolves
CanLoad(buffer) == buffer = "good"

\* pdf.getPage(pageIndex + 1) resolves
HasPage(buffer, pageIndex) == CanLoad(buffer) /\ pageIndex \in 0..(DocPages - 1)

\* what a renderer produces for one task: that page, in that format
Rendering(buffer, task) == [page |-> task.page, format |-> task.format]

Failure(error) == [ok |-> FALSE, value |-> <<>>, error |-> error]

Success(value) == [ok |-> TRUE, value |-> value, error |-> None]

\* renderPageLocally: renderPageToSVG or renderPageToImageBitmap
renderPageLocally(buffer, task) ==
  IF HasPage(buffer, task.page)
  THEN Success(<<Rendering(buffer, task)>>)
  ELSE Failure("render")

\* exportPagesLocally: for (const task of tasks) results.push(await ...)
RECURSIVE exportLoopLocally(_, _, _)
exportLoopLocally(buffer, tasks, results) ==
  IF tasks = <<>> THEN Success(results)
  ELSE IF ~HasPage(buffer, Head(tasks).page) THEN Failure("render")
  ELSE exportLoopLocally(buffer, Tail(tasks),
                         Append(results, Rendering(buffer, Head(tasks))))

exportPagesLocally(buffer, tasks) == exportLoopLocally(buffer, tasks, <<>>)

\* loadDocumentLocally reporting an unloadable document as an empty one
loadDocumentLocally_NeverFails(buffer) ==
  IF CanLoad(buffer)
  THEN Success(<<[pageCount |-> DocPages, loaded |-> TRUE]>>)
  ELSE Success(<<[pageCount |-> 0, loaded |-> FALSE]>>)

\* loadDocumentLocally: {pageCount: doc.numPages, loaded: true}
loadDocumentLocally(buffer) ==
  IF CanLoad(buffer)
  THEN Success(<<[pageCount |-> DocPages, loaded |-> TRUE]>>)
  ELSE Failure("load")

\* renderMultiplePages returning what it has when a task fails
RECURSIVE renderLoopWorker_SkipFailed(_, _, _)
renderLoopWorker_SkipFailed(buffer, tasks, results) ==
  IF tasks = <<>> THEN Success(results)
  ELSE IF ~HasPage(buffer, Head(tasks).page)
       THEN renderLoopWorker_SkipFailed(buffer, Tail(tasks), results)
  ELSE renderLoopWorker_SkipFailed(buffer, Tail(tasks),
                        Append(results, Rendering(buffer, Head(tasks))))

\* render.worker.ts renderMultiplePages: sequential, rethrows a task's error
RECURSIVE renderLoopWorker(_, _, _)
renderLoopWorker(buffer, tasks, results) ==
  IF tasks = <<>> THEN Success(results)
  ELSE IF ~HasPage(buffer, Head(tasks).page) THEN Failure("render")
  ELSE renderLoopWorker(buffer, Tail(tasks),
                        Append(results, Rendering(buffer, Head(tasks))))

renderMultiplePages(buffer, tasks) == renderLoopWorker(buffer, tasks, <<>>)

\* render.worker.ts self.onmessage: the switch on message type
WorkerCompute(op, buffer, tasks) ==
  CASE op = "render" ->
         IF HasPage(buffer, tasks[1].page)
         THEN Success(<<Rendering(buffer, tasks[1])>>)
         ELSE Failure("render")
    [] op = "export" -> renderMultiplePages(buffer, tasks)
    [] op = "load" ->
         IF CanLoad(buffer)
         THEN Success(<<[pageCount |-> DocPages, loaded |-> TRUE]>>)
         ELSE Failure("load")

\* the foreground execution of a call: the *Locally method of its operation
LocalResult(op, buffer, tasks) ==
  CASE op = "render" -> renderPageLocally(buffer, tasks[1])
    [] op = "export" -> exportPagesLocally(buffer, tasks)
    [] op = "load" -> loadDocumentLocally(buffer)

(***************************************************************************)
(* The coordinator as a state machine.  A call runs in steps separated by  *)
(* its awaits: the synchronous start (renderPage / exportPages /           *)
(* loadDocument up to "await this.initWorker()"), the dispatch (the rest   *)
(* of sendMessage), the settling of the request (worker response,          *)
(* timeout, cleanup) and the catch block that falls back to the            *)
(* foreground.  Foreground execution touches no coordinator field and is   *)
(* folded into the step that starts it.                                    *)
(***************************************************************************)
RenderArgs == {<<Task(0, "bitmap")>>}

TaskLists ==
  { <<Task(3, "png"), Task(1, "png"), Task(2, "png")>>,
    <<Task(2, "png"), Task(DocPages, "png"), Task(1, "png")>>,
    <<Task(1, "jpeg"), Task(0, "svg")>> }

\* the record of a call that has just been made
NewCall(op, buffer, tasks) ==
  [op |-> op, buffer |-> buffer, tasks |-> tasks, st |-> "init",
   startedFailed |-> workerFailed, w |-> 0, id |-> 0,
   createdWorker |-> FALSE, bgError |-> None, ranLocal |-> FALSE,
   settled |-> "pending", value |-> <<>>, timeout |-> 0, stamp |-> 0]

\* return this.<op>Locally(...): the call settles as the foreground run does
RunLocally(c) ==
  LET r == LocalResult(c.op, c.buffer, c.tasks)
  IN  [c EXCEPT !.st = "done", !.ranLocal = TRUE,
                !.settled = IF r.ok THEN "resolved" ELSE "rejected",
                !.value = r.value]

\* the number the next Worker object gets
NextWorker == Cardinality({i \in DOMAIN calls : calls[i].createdWorker}) + 1

\* a call that goes straight to the foreground
StartLocal(c) ==
  /\ calls' = Append(calls, RunLocally(c))
  /\ UNCHANGED <<terminated, platform, workerSupported, workerFailed, worker, messageId,
                 pendingMessages, timers, posted>>

\* the default of the timeout parameter of sendMessage, in milliseconds
DefaultTimeout == 30000
\* the timeout exportPages passes, in milliseconds
ExportTimeout == 60000

\* sendMessage whose initWorker constructs a Worker on every call
SendMessage_AlwaysCreates(c, timeout) ==
  /\ \/ /\ ~platform.createThrows
        /\ worker' = NextWorker
        /\ calls' = Append(calls, [c EXCEPT !.w = NextWorker,
                                            !.createdWorker = TRUE,
                                            !.timeout = timeout])
     \/ /\ worker = 0
        /\ platform.createThrows
        /\ calls' = Append(calls, [c EXCEPT !.st = "bgFailed",
                                            !.bgError = "create",
                                            !.timeout = timeout])
        /\ UNCHANGED worker
  /\ UNCHANGED <<terminated, platform, workerSupported, workerFailed, messageId,
                 pendingMessages, timers, posted>>

\* sendMessage(type, payload, timeout) up to "await this.initWorker()": reuse
\* the worker, create it, or, on a platform where "new Worker" throws, fail
\* (the rejection reaches the caller's catch)
SendMessage(c, timeout) ==
  /\ \/ /\ worker # 0
        /\ calls' = Append(calls, [c EXCEPT !.w = worker, !.timeout = timeout])
        /\ UNCHANGED worker
     \/ /\ worker = 0
        /\ ~platform.createThrows
        /\ worker' = NextWorker
        /\ calls' = Append(calls, [c EXCEPT !.w = NextWorker,
                                            !.createdWorker = TRUE,
                                            !.timeout = timeout])
     \/ /\ worker = 0
        /\ platform.createThrows
        /\ calls' = Append(calls, [c EXCEPT !.st = "bgFailed",
                                            !.bgError = "create",
                                            !.timeout = timeout])
        /\ UNCHANGED worker
  /\ UNCHANGED <<terminated, platform, workerSupported, workerFailed, messageId, pendingMessages,
                 timers, posted>>

RenderPage(buffer, tasks) ==
  /\ kind = "coord"
  /\ Len(calls) < MaxCalls
  /\ IF ~workerSupported \/ workerFailed
     THEN StartLocal(NewCall("render", buffer, tasks))
     ELSE SendMessage(NewCall("render", buffer, tasks), DefaultTimeout)
  /\ UNCHANGED <<kind, pc, rangeVars, geoVars, svgRun, cropVars, cacheVars, storeVars, viewVars, msgVars, acquireVars>>

\* exportPages without the requiresDom test
ExportPages_SvgToWorker(buffer, tasks) ==
  /\ kind = "coord"
  /\ Len(calls) < MaxCalls
  /\ IF ~workerSupported \/ workerFailed
     THEN StartLocal(NewCall("export", buffer, tasks))
     ELSE SendMessage(NewCall("export", buffer, tasks), ExportTimeout)
  /\ UNCHANGED <<kind, pc, rangeVars, geoVars, svgRun, cropVars, cacheVars, storeVars, viewVars, msgVars, acquireVars>>

ExportPages(buffer, tasks) ==
  /\ kind = "coord"
  /\ Len(calls) < MaxCalls
  /\ IF \E i \in DOMAIN tasks : tasks[i].format = "svg"
     THEN StartLocal(NewCall("export", buffer, tasks))
     ELSE IF ~workerSupported \/ workerFailed
     THEN StartLocal(NewCall("export", buffer, tasks))
     ELSE SendMessage(NewCall("export", buffer, tasks), ExportTimeout)
  /\ UNCHANGED <<kind, pc, rangeVars, geoVars, svgRun, cropVars, cacheVars, storeVars, viewVars, msgVars, acquireVars>>

\* loadDocument that tries the worker whatever workerFailed says
LoadDocument_NoDegradedCheck(buffer) ==
  /\ kind = "coord"
  /\ Len(calls) < MaxCalls
  /\ IF ~workerSupported
     THEN StartLocal(NewCall("load", buffer, <<>>))
     ELSE SendMessage(NewCall("load", buffer, <<>>), DefaultTimeout)
  /\ UNCHANGED <<kind, pc, rangeVars, geoVars, svgRun, cropVars, cacheVars, storeVars, viewVars, msgVars, acquireVars>>

LoadDocument(buffer) ==
  /\ kind = "coord"
  /\ Len(calls) < MaxCalls
  /\ IF ~workerSupported \/ workerFailed
     THEN StartLocal(NewCall("load", buffer, <<>>))
     ELSE SendMessage(NewCall("load", buffer, <<>>), DefaultTimeout)
  /\ UNCHANGED <<kind, pc, rangeVars, geoVars, svgRun, cropVars, cacheVars, storeVars, viewVars, msgVars, acquireVars>>

\* A continuation of an await is queued as a microtask: a call that has
\* passed "await this.initWorker()" or whose request was rejected resumes
\* before the event loop delivers the next worker event or timer.
MicrotaskPending == \E i \in DOMAIN calls : calls[i].st \in {"init", "bgFailed"}

\* sendMessage building the id without advancing the counter
Dispatch_NoCounter(i) ==
  /\ kind = "coord"
  /\ i \in DOMAIN calls
  /\ calls[i].st = "init"
  /\ messageId' = messageId
  /\ timers' = timers \cup {messageId + 1}
  /\ pendingMessages' = pendingMessages \cup {messageId + 1}
  /\ \/ /\ ~platform.postThrows
        /\ posted' = posted \cup {[id |-> messageId + 1, worker |-> calls[i].w,
                                   call |-> i, answered |-> FALSE]}
        /\ \E now \in 0..MaxClock :
             calls' = [calls EXCEPT ![i].st = "waiting", ![i].id = messageId + 1,
                                    ![i].stamp = now]
     \/ /\ platform.postThrows
        /\ \E now \in 0..MaxClock :
             calls' = [calls EXCEPT ![i].st = "bgFailed", ![i].id = messageId + 1,
                                    ![i].bgError = "post", ![i].stamp = now]
        /\ UNCHANGED posted
  /\ UNCHANGED <<terminated, platform, workerSupported, workerFailed, worker>>
  /\ UNCHANGED <<kind, pc, rangeVars, geoVars, svgRun, cropVars, cacheVars, storeVars, viewVars, msgVars, acquireVars>>

\* sendMessage after the await: take an id, arm the timer, record the
\* request, post the message; where postMessage throws, it throws inside
\* the executor, which rejects the promise and leaves the record and the
\* timer behind
Dispatch(i) ==
  /\ kind = "coord"
  /\ i \in DOMAIN calls
  /\ calls[i].st = "init"
  /\ messageId' = messageId + 1
  /\ timers' = timers \cup {messageId + 1}
  /\ pendingMessages' = pendingMessages \cup {messageId + 1}
  /\ \/ /\ ~platform.postThrows
        /\ posted' = posted \cup {[id |-> messageId + 1, worker |-> calls[i].w,
                                   call |-> i, answered |-> FALSE]}
        /\ \E now \in 0..MaxClock :
             calls' = [calls EXCEPT ![i].st = "waiting", ![i].id = messageId + 1,
                                    ![i].stamp = now]
     \/ /\ platform.postThrows
        /\ \E now \in 0..MaxClock :
             calls' = [calls EXCEPT ![i].st = "bgFailed", ![i].id = messageId + 1,
                                    ![i].bgError = "post", ![i].stamp = now]
        /\ UNCHANGED posted
  /\ UNCHANGED <<terminated, platform, workerSupported, workerFailed, worker>>
  /\ UNCHANGED <<kind, pc, rangeVars, geoVars, svgRun, cropVars, cacheVars, storeVars, viewVars, msgVars, acquireVars>>

\* an onmessage handler that settles the oldest pending request, whatever
\* the id of the response
WorkerRespond_IgnoresId(m, malfunction) ==
  /\ kind = "coord"
  /\ ~MicrotaskPending
  /\ m \in posted
  /\ ~m.answered
  /\ m.worker = worker
  /\ LET c == calls[m.call]
         r == WorkerCompute(c.op, c.buffer, c.tasks)
         success == r.ok /\ ~malfunction
     IN  /\ posted' = (posted \ {m}) \cup {[m EXCEPT !.answered = TRUE]}
         /\ IF pendingMessages # {}
            THEN LET id == CHOOSE x \in pendingMessages :
                             \A y \in pendingMessages : x <= y
                     k  == CHOOSE j \in DOMAIN calls : calls[j].id = id
                 IN /\ timers' = timers \ {id}
                    /\ pendingMessages' = pendingMessages \ {id}
                    /\ calls' = [calls EXCEPT ![k] =
                         IF success
                         THEN [calls[k] EXCEPT !.st = "done", !.settled = "resolved",
                                               !.value = r.value]
                         ELSE [calls[k] EXCEPT !.st = "bgFailed", !.bgError = "worker"]]
            ELSE UNCHANGED <<timers, pendingMessages, calls>>
  /\ UNCHANGED <<terminated, platform, workerSupported, workerFailed, worker, messageId>>
  /\ UNCHANGED <<kind, pc, rangeVars, geoVars, svgRun, cropVars, cacheVars, storeVars, viewVars, msgVars, acquireVars>>

\* the worker answers message m (render.worker.ts self.onmessage) and the
\* coordinator's onmessage handler settles the request if it is still
\* pending; a terminated worker delivers nothing.  The worker may fail for
\* reasons of its own (no 2d context, no SVG support in the worker).
WorkerRespond(m, malfunction) ==
  /\ kind = "coord"
  /\ ~MicrotaskPending
  /\ m \in posted
  /\ ~m.answered
  /\ m.worker = worker
  /\ LET c == calls[m.call]
         r == WorkerCompute(c.op, c.buffer, c.tasks)
         success == r.ok /\ ~malfunction
     IN  /\ posted' = (posted \ {m}) \cup {[m EXCEPT !.answered = TRUE]}
         /\ IF m.id \in pendingMessages
            THEN /\ timers' = timers \ {m.id}
                 /\ pendingMessages' = pendingMessages \ {m.id}
                 /\ calls' = [calls EXCEPT ![m.call] =
                      IF success
                      THEN [c EXCEPT !.st = "done", !.settled = "resolved",
                                     !.value = r.value]
                      ELSE [c EXCEPT !.st = "bgFailed", !.bgError = "worker"]]
            ELSE UNCHANGED <<timers, pendingMessages, calls>>
  /\ UNCHANGED <<terminated, platform, workerSupported, workerFailed, worker, messageId>>
  /\ UNCHANGED <<kind, pc, rangeVars, geoVars, svgRun, cropVars, cacheVars, storeVars, viewVars, msgVars, acquireVars>>

\* a setTimeout callback that rejects and leaves the record in the map
Timeout_KeepsRecord(id) ==
  /\ kind = "coord"
  /\ ~MicrotaskPending
  /\ id \in timers
  /\ timers' = timers \ {id}
  /\ calls' = [i \in DOMAIN calls |->
       IF calls[i].id = id /\ calls[i].st = "waiting"
       THEN [calls[i] EXCEPT !.st = "bgFailed", !.bgError = "timeout"]
       ELSE calls[i]]
  /\ UNCHANGED <<terminated, platform, workerSupported, workerFailed, worker, messageId, posted,
                 pendingMessages>>
  /\ UNCHANGED <<kind, pc, rangeVars, geoVars, svgRun, cropVars, cacheVars, storeVars, viewVars, msgVars, acquireVars>>

\* a request's setTimeout callback: drop the record, reject the promise
\* (rejecting a promise that is already settled has no effect)
Timeout(id) ==
  /\ kind = "coord"
  /\ ~MicrotaskPending
  /\ id \in timers
  /\ timers' = timers \ {id}
  /\ pendingMessages' = pendingMessages \ {id}
  /\ calls' = [i \in DOMAIN calls |->
       IF calls[i].id = id /\ calls[i].st = "waiting"
       THEN [calls[i] EXCEPT !.st = "bgFailed", !.bgError = "timeout"]
       ELSE calls[i]]
  /\ UNCHANGED <<terminated, platform, workerSupported, workerFailed, worker, messageId, posted>>
  /\ UNCHANGED <<kind, pc, rangeVars, geoVars, svgRun, cropVars, cacheVars, storeVars, viewVars, msgVars, acquireVars>>

\* cleanup() that forgets clearTimeout
cleanup_LeavesTimers ==
  /\ calls' = [i \in DOMAIN calls |->
       IF calls[i].id \in pendingMessages /\ calls[i].st = "waiting"
       THEN [calls[i] EXCEPT !.st = "bgFailed", !.bgError = "disposed"]
       ELSE calls[i]]
  /\ pendingMessages' = {}
  /\ worker' = 0
  /\ terminated' = IF worker # 0 THEN terminated \cup {worker} ELSE terminated
  /\ UNCHANGED <<platform, workerSupported, workerFailed, messageId, posted,
                 timers>>

\* WorkerManager.cleanup()
cleanup ==
  /\ calls' = [i \in DOMAIN calls |->
       IF calls[i].id \in pendingMessages /\ calls[i].st = "waiting"
       THEN [calls[i] EXCEPT !.st = "bgFailed", !.bgError = "disposed"]
       ELSE calls[i]]
  /\ timers' = timers \ pendingMessages
  /\ pendingMessages' = {}
  /\ worker' = 0
  /\ terminated' = IF worker # 0 THEN terminated \cup {worker} ELSE terminated
  /\ UNCHANGED <<platform, workerSupported, workerFailed, messageId, posted>>

\* cleanup() called by the application or by the beforeunload listener
Cleanup ==
  /\ kind = "coord"
  /\ cleanup
  /\ UNCHANGED <<kind, pc, rangeVars, geoVars, svgRun, cropVars, cacheVars, storeVars, viewVars, msgVars, acquireVars>>

\* worker.onerror: this.cleanup(); pc keeps the fact that the worker crashed
WorkerError ==
  /\ kind = "coord"
  /\ ~MicrotaskPending
  /\ worker # 0
  /\ cleanup
  /\ pc' = "crashed"
  /\ UNCHANGED <<kind, rangeVars, geoVars, svgRun, cropVars, cacheVars, storeVars, viewVars, msgVars, acquireVars>>

\* a catch block that marks the coordinator degraded and rethrows
Fallback_Rethrow(i) ==
  /\ kind = "coord"
  /\ i \in DOMAIN calls
  /\ calls[i].st = "bgFailed"
  /\ workerFailed' = TRUE
  /\ calls' = [calls EXCEPT ![i].st = "done", ![i].settled = "rejected"]
  /\ UNCHANGED <<terminated, platform, workerSupported, worker, messageId, pendingMessages,
                 timers, posted>>
  /\ UNCHANGED <<kind, pc, rangeVars, geoVars, svgRun, cropVars, cacheVars, storeVars, viewVars, msgVars, acquireVars>>

\* a catch block that runs the foreground path and leaves workerFailed alone
Fallback_NoDegrade(i) ==
  /\ kind = "coord"
  /\ i \in DOMAIN calls
  /\ calls[i].st = "bgFailed"
  /\ calls' = [calls EXCEPT ![i] = RunLocally(calls[i])]
  /\ UNCHANGED <<terminated, platform, workerSupported, workerFailed, worker, messageId,
                 pendingMessages, timers, posted>>
  /\ UNCHANGED <<kind, pc, rangeVars, geoVars, svgRun, cropVars, cacheVars, storeVars, viewVars, msgVars, acquireVars>>

\* the catch block of renderPage / exportPages / loadDocument
Fallback(i) ==
  /\ kind = "coord"
  /\ i \in DOMAIN calls
  /\ calls[i].st = "bgFailed"
  /\ workerFailed' = TRUE
  /\ calls' = [calls EXCEPT ![i] = RunLocally(calls[i])]
  /\ UNCHANGED <<terminated, platform, workerSupported, worker, messageId, pendingMessages, timers,
                 posted>>
  /\ UNCHANGED <<kind, pc, rangeVars, geoVars, svgRun, cropVars, cacheVars, storeVars, viewVars, msgVars, acquireVars>>

RangeUnused ==
  /\ expr = <<>>
  /\ maxPage = 0
  /\ pages = <<>>
  /\ parsed = <<>>
  /\ validation = NoValidation
  /\ formatted = <<>>

GeoUnused ==
  /\ geo = None
  /\ geoOut = None

\* The platforms: without OffscreenCanvas; with it and working workers; with
\* workers that cannot be constructed; with a postMessage that throws.
Platforms ==
  { [offscreen |-> FALSE, createThrows |-> FALSE, postThrows |-> FALSE],
    [offscreen |-> TRUE, createThrows |-> FALSE, postThrows |-> FALSE],
    [offscreen |-> TRUE, createThrows |-> TRUE, postThrows |-> FALSE],
    [offscreen |-> TRUE, createThrows |-> FALSE, postThrows |-> TRUE] }

\* new WorkerManager(): workerSupported = supportsOffscreenCanvas
CoordInit ==
  /\ kind = "coord"
  /\ pc = "input"
  /\ RangeUnused
  /\ GeoUnused
  /\ SvgUnused
  /\ CropUnused
  /\ CacheUnused
  /\ StoreUnused
  /\ ViewUnused
  /\ MsgUnused
  /\ AcquireUnused
  /\ platform \in Platforms
  /\ workerSupported = platform.offscreen
  /\ workerFailed = FALSE
  /\ worker = 0
  /\ messageId = 0
  /\ pendingMessages = {}
  /\ timers = {}
  /\ posted = {}
  /\ calls = <<>>
  /\ terminated = {}

CoordNext ==
  \/ \E tasks \in RenderArgs : RenderPage("good", tasks)
  \/ \E tasks \in TaskLists : ExportPages("good", tasks)
  \/ \E buffer \in Buffers : LoadDocument(buffer)
  \/ \E i \in 1..MaxCalls : Dispatch(i)
  \/ \E m \in posted, malfunction \in BOOLEAN : WorkerRespond(m, malfunction)
  \/ \E id \in timers : Timeout(id)
  \/ Cleanup
  \/ WorkerError
  \/ \E i \in 1..MaxCalls : Fallback(i)

CoordSpec == CoordInit /\ [][CoordNext]_vars


(***************************************************************************)
(* Properties of the render coordinator.                                   *)
(***************************************************************************)
\* what the foreground execution of call c gives
LocalOf(c) == LocalResult(c.op, c.buffer, c.tasks)

SettledAs(r) == IF r.ok THEN "resolved" ELSE "rejected"

Done(c) == c.st = "done"

\* the call went through the catch block and was answered by the foreground
Recovered(c) == Done(c) /\ c.bgError # None /\ c.ranLocal

\* C11: a call whose background path failed (worker creation threw,
\* postMessage threw, the worker answered with an error, the request timed
\* out, the worker was torn down) ends as its foreground execution with the
\* same arguments ends, and a call is rejected only if its foreground
\* execution fails.
C11_FallbackToForeground ==
  \A i \in DOMAIN calls :
    /\ (Done(calls[i]) /\ calls[i].bgError # None) =>
         /\ calls[i].ranLocal
         /\ calls[i].settled = SettledAs(LocalOf(calls[i]))
         /\ calls[i].value = LocalOf(calls[i]).value
    /\ calls[i].settled = "rejected" =>
         /\ calls[i].ranLocal
         /\ ~LocalOf(calls[i]).ok

\* a timed-out call and a call answered with an error, both resolved by the
\* foreground
C11_Witness ==
  \E i, j \in DOMAIN calls :
    /\ Recovered(calls[i]) /\ calls[i].bgError = "timeout"
    /\ Recovered(calls[j]) /\ calls[j].bgError = "worker"
    /\ calls[i].settled = "resolved"
    /\ calls[j].settled = "resolved"

\* the messages posted for call i
PostedFor(i) == {m \in posted : m.call = i}

StartedDegradedInForeground ==
  \A i \in DOMAIN calls :
    calls[i].startedFailed =>
      /\ Done(calls[i])
      /\ calls[i].ranLocal
      /\ ~calls[i].createdWorker
      /\ calls[i].id = 0
      /\ PostedFor(i) = {}

\* C12: workerFailed, once set, stays set, and every call started while it
\* is set runs in the foreground, creates no worker and posts no message.
C12_DegradedIsSticky ==
  /\ [][workerFailed => workerFailed']_vars
  /\ []StartedDegradedInForeground

\* a call started after the coordinator degraded, while the worker of the
\* failed request is still alive
C12_Witness ==
  /\ workerFailed
  /\ worker # 0
  /\ \E i \in DOMAIN calls :
       /\ calls[i].startedFailed
       /\ calls[i].ranLocal
       /\ calls[i].settled = "resolved"

HasSvg(tasks) == \E k \in DOMAIN tasks : tasks[k].format = "svg"

\* C13: a step that starts an exportPages batch with an svg task runs the
\* whole batch in the foreground and leaves worker, workerFailed, the
\* message counter, the pending records, the timers and the posted messages
\* as they were.
C13_SvgBatchInForeground ==
  [][(Len(calls') = Len(calls) + 1
        /\ calls'[Len(calls')].op = "export"
        /\ HasSvg(calls'[Len(calls')].tasks))
     => /\ UNCHANGED <<workerSupported, workerFailed, worker, messageId,
                       pendingMessages, timers, posted>>
        /\ Done(calls'[Len(calls')])
        /\ calls'[Len(calls')].ranLocal
        /\ calls'[Len(calls')].bgError = None
        /\ ~calls'[Len(calls')].createdWorker
        /\ Len(calls'[Len(calls')].value) = Len(calls'[Len(calls')].tasks)]_vars

\* an svg batch run while a healthy worker has a request of another call
\* pending
C13_Witness ==
  /\ ~workerFailed
  /\ worker # 0
  /\ pendingMessages # {}
  /\ \E i \in DOMAIN calls :
       /\ calls[i].op = "export"
       /\ HasSvg(calls[i].tasks)
       /\ \E k \in DOMAIN calls[i].tasks : calls[i].tasks[k].format # "svg"
       /\ calls[i].settled = "resolved"
       /\ calls[i].ranLocal

\* C14: a resolved exportPages call has one result per task, result k being
\* the rendering of task k, whichever path produced it; a rejected one has
\* no results.
C14_BatchOrder ==
  \A i \in DOMAIN calls :
    (calls[i].op = "export" /\ Done(calls[i])) =>
      IF calls[i].settled = "resolved"
      THEN /\ Len(calls[i].value) = Len(calls[i].tasks)
           /\ \A k \in DOMAIN calls[i].tasks :
                /\ calls[i].value[k].page = calls[i].tasks[k].page
                /\ calls[i].value[k].format = calls[i].tasks[k].format
      ELSE calls[i].value = <<>>

\* pages 3, 1, 2 exported by the worker, and a batch with a page the
\* document lacks rejected after the worker and the foreground both failed
C14_Witness ==
  \E i, j \in DOMAIN calls :
    /\ calls[i].op = "export"
    /\ calls[i].settled = "resolved"
    /\ ~calls[i].ranLocal
    /\ calls[i].value = <<Task(3, "png"), Task(1, "png"), Task(2, "png")>>
    /\ calls[j].op = "export"
    /\ calls[j].bgError = "worker"
    /\ calls[j].settled = "rejected"

\* C15: a cleanup() step, whether called by the application, by the unload
\* listener or by worker.onerror, leaves no pending record, no armed timer
\* of a request that was pending, and no worker; every request that was
\* waiting is rejected with the disposed error; with nothing pending and no
\* worker it changes nothing.
C15_CleanupDisposes ==
  [][(Cleanup \/ WorkerError)
     => /\ pendingMessages' = {}
        /\ worker' = 0
        /\ \A id \in pendingMessages : id \notin timers'
        /\ \A i \in DOMAIN calls :
             (calls[i].st = "waiting" /\ calls[i].id \in pendingMessages) =>
               /\ calls'[i].st = "bgFailed"
               /\ calls'[i].bgError = "disposed"
        /\ (pendingMessages = {} /\ worker = 0) => UNCHANGED vars]_vars

\* both calls of the run rejected by one cleanup()
C15_Witness ==
  /\ pendingMessages = {}
  /\ timers = {}
  /\ worker = 0
  /\ \E i, j \in DOMAIN calls :
       /\ i # j
       /\ calls[i].st = "bgFailed" /\ calls[i].bgError = "disposed"
       /\ calls[j].st = "bgFailed" /\ calls[j].bgError = "disposed"

\* C16: a finished loadDocument call of a loadable document has resolved to
\* {pageCount: DocPages, loaded: true}; of an unloadable one, has rejected;
\* and a call made after a rejected loadDocument still ends as its own
\* execution ends.
C16_LoadDocument ==
  \A i \in DOMAIN calls :
    (calls[i].op = "load" /\ Done(calls[i])) =>
      /\ CanLoad(calls[i].buffer) =>
           /\ calls[i].settled = "resolved"
           /\ calls[i].value = <<[pageCount |-> DocPages, loaded |-> TRUE]>>
      /\ ~CanLoad(calls[i].buffer) =>
           /\ calls[i].settled = "rejected"
           /\ \A j \in DOMAIN calls :
                (j > i /\ Done(calls[j])) =>
                  calls[j].settled = SettledAs(LocalOf(calls[j]))

\* an unloadable document rejected after the worker and the foreground
\* failed, then a loadable one loaded
C16_Witness ==
  \E i, j \in DOMAIN calls :
    /\ i < j
    /\ calls[i].op = "load"
    /\ calls[i].bgError = "worker"
    /\ calls[i].settled = "rejected"
    /\ calls[j].op = "load"
    /\ calls[j].startedFailed
    /\ calls[j].settled = "resolved"

(***************************************************************************)
(* The foreground SVG renderer: renderPageToSVG with its raster fallback   *)
(* (src/src/core/pdfLoader.ts 183-238).  An SVG document is the record of  *)
(* its root attributes and its child elements; an element's href is <<>>   *)
(* or <<data>>.  What pdf.js and the DOM do for a call is drawn with the   *)
(* call: the step of the vector path that throws, the step of the raster   *)
(* path that throws, and the size the canvas gets.  Document load and page *)
(* lookup depend on the buffer and the page alone, so they fail on both    *)
(* paths or on neither.                                                    *)
(***************************************************************************)
\* largest width and height of the fallback canvas, in pixels
MaxRaster == 2

VectorFaults == {None, "getOperatorList", "ensureSvgGraphics", "getSVG", "serializeToString"}

RasterFaults == {None, "getContext", "render", "toDataURL"}

\* The canvas has at least one pixel each way: a page box has positive size
\* and export scales are dpi / 72 with dpi >= 72.
SvgInputs ==
  [buffer : Buffers, pageIndex : 0..DocPages, vectorFault : VectorFaults,
   rasterFault : RasterFaults, width : 1..MaxRaster, height : 1..MaxRaster]

Element(tag, href, width, height) ==
  [tag |-> tag, href |-> href, width |-> width, height |-> height]

SvgDocument(width, height, children) ==
  [width |-> width, height |-> height, viewBox |-> <<0, 0, width, height>>,
   children |-> children]

\* the try block: getPdfDocument, getPage, getOperatorList,
\* ensureSvgGraphics, getSVG, serializeToString
vectorRender(in) ==
  IF ~CanLoad(in.buffer) THEN Failure("getDocument")
  ELSE IF ~HasPage(in.buffer, in.pageIndex) THEN Failure("getPage")
  ELSE IF in.vectorFault # None THEN Failure(in.vectorFault)
  ELSE Success(<<SvgDocument(in.width, in.height,
                   <<Element("g", <<>>, in.width, in.height)>>)>>)

\* renderPageToCanvas: loads the document again, sizes the canvas to the
\* viewport, draws the page
renderPageToCanvas(in) ==
  IF ~CanLoad(in.buffer) THEN Failure("canvas.getDocument")
  ELSE IF ~HasPage(in.buffer, in.pageIndex) THEN Failure("canvas.getPage")
  ELSE IF in.rasterFault \in {"getContext", "render"}
       THEN Failure("canvas." \o in.rasterFault)
  ELSE Success(<<[page |-> in.pageIndex, width |-> in.width,
                  height |-> in.height]>>)

\* canvas.toDataURL('image/png')
toDataURL(canvas) ==
  [mime |-> "image/png", page |-> canvas.page, width |-> canvas.width,
   height |-> canvas.height]

\* canvas.width || 1
OrOne(n) == IF n = 0 THEN 1 ELSE n

\* the inner catch of a variant that reports the fallback's own error
rasterFallback_ThrowsFallbackError(in, error) ==
  LET c == renderPageToCanvas(in)
  IN  IF ~c.ok THEN Failure(c.error)
      ELSE IF in.rasterFault = "toDataURL" THEN Failure("toDataURL")
      ELSE Success(<<SvgDocument(OrOne(c.value[1].width), OrOne(c.value[1].height),
                       <<Element("image", <<toDataURL(c.value[1])>>,
                                 OrOne(c.value[1].width),
                                 OrOne(c.value[1].height))>>)>>)

\* the catch block: rasterize, wrap the PNG in <svg><image/></svg>; when
\* that fails too, throw the error the try block caught
rasterFallback(in, error) ==
  LET c == renderPageToCanvas(in)
  IN  IF ~c.ok THEN Failure(error)
      ELSE IF in.rasterFault = "toDataURL" THEN Failure(error)
      ELSE Success(<<SvgDocument(OrOne(c.value[1].width), OrOne(c.value[1].height),
                       <<Element("image", <<toDataURL(c.value[1])>>,
                                 OrOne(c.value[1].width),
                                 OrOne(c.value[1].height))>>)>>)

NoResult == [ok |-> FALSE, value |-> <<>>, error |-> None]

SvgInit ==
  /\ kind = "svg"
  /\ pc = "called"
  /\ RangeUnused
  /\ GeoUnused
  /\ CoordUnused
  /\ CropUnused
  /\ CacheUnused
  /\ StoreUnused
  /\ ViewUnused
  /\ MsgUnused
  /\ AcquireUnused
  /\ \E in \in SvgInputs : svgRun = [in |-> in, caught |-> None, result |-> NoResult]

\* renderPageToSVG up to the end of the try block
VectorRender ==
  /\ kind = "svg"
  /\ pc = "called"
  /\ LET r == vectorRender(svgRun.in)
     IN  IF r.ok
         THEN /\ svgRun' = [svgRun EXCEPT !.result = r]
              /\ pc' = "returned"
         ELSE /\ svgRun' = [svgRun EXCEPT !.caught = r.error]
              /\ pc' = "catch"
  /\ UNCHANGED <<kind, rangeVars, geoVars, coordVars, cropVars, cacheVars, storeVars, viewVars, msgVars, acquireVars>>

\* renderPageToSVG from catch (error) to its return or throw
RasterFallback ==
  /\ kind = "svg"
  /\ pc = "catch"
  /\ LET r == rasterFallback(svgRun.in, svgRun.caught)
     IN  /\ svgRun' = [svgRun EXCEPT !.result = r]
         /\ pc' = IF r.ok THEN "returned" ELSE "thrown"
  /\ UNCHANGED <<kind, rangeVars, geoVars, coordVars, cropVars, cacheVars, storeVars, viewVars, msgVars, acquireVars>>

SvgNext == VectorRender \/ RasterFallback

SvgSpec == SvgInit /\ [][SvgNext]_vars

(***************************************************************************)
(* Properties of the SVG renderer.                                         *)
(***************************************************************************)
\* the step of the vector path that throws first, None if none does
VectorError(in) ==
  IF in.buffer # "good" THEN "getDocument"
  ELSE IF in.pageIndex >= DocPages THEN "getPage"
  ELSE in.vectorFault

RasterWorks(in) ==
  in.buffer = "good" /\ in.pageIndex < DocPages /\ in.rasterFault = None

\* <svg width height viewBox="0 0 w h"><image href=PNG width height/></svg>
RasterWrapper(in) ==
  [width |-> in.width, height |-> in.height,
   viewBox |-> <<0, 0, in.width, in.height>>,
   children |-> <<[tag |-> "image",
                   href |-> <<[mime |-> "image/png", page |-> in.pageIndex,
                               width |-> in.width, height |-> in.height]>>,
                   width |-> in.width, height |-> in.height]>>]

MaxCoord == 15
\* pages of the open document
NumPages == 2
\* the smallest side of a rectangle handleMouseUp commits, in pixels
MinCropSize == 10
\* the smallest side CropOverlay.handleMouseMove leaves, in pixels
MinOverlaySize == 10

\* Math.max of two numbers
RMax(a, b) == IF RLess(a, b) THEN b ELSE a

\* store.pages: every page is 20 x 20 points without a crop box
CropPages == [i \in 0..(NumPages - 1) |-> PageMeta(PdfBox(0, 0, 20, 20), <<>>)]

\* container.clientWidth = container.clientHeight when the viewport effect
\* runs: a container leaving 8 pixels for the page, and one leaving 20
Containers == {88, 100}

\* mouse coordinates tried; the canvas receives those inside it
Coords == {0, 5, MaxCoord}

\* distances of a handle drag along one axis
Deltas == {0 - MaxCoord, 5}

\* type ResizeHandle
ResizeHandles == {"nw", "n", "ne", "e", "se", "s", "sw", "w", "move"}

\* keys of the keydown handler that act
Keys == {"ArrowLeft", "ArrowUp", "ArrowRight", "ArrowDown", "Escape"}

\* the effect on [page, renderScale]: calculateViewport(page, clientWidth,
\* clientHeight, 40).  Nothing calls setRenderScale, so the effect runs when
\* the page changes.
viewportEffect(i, c) ==
  <<calculateViewport(CropPages[i], R(c), R(c), R(ViewerPadding))>>

\* the canvas is viewport.width x viewport.height pixels
OnCanvas(x, y) ==
  /\ viewportState # <<>>
  /\ RLeq(R(x), viewportState[1].width)
  /\ RLeq(R(y), viewportState[1].height)

\* {cropDraft && cropDraft.page === currentPage && <CropOverlay ... />}
OverlayMounted ==
  /\ viewportState # <<>>
  /\ cropDraft # <<>>
  /\ cropDraft[1].page = currentPage

\* CropOverlay: const canvasRect = pdfRectToCanvasRect(cropRect, page, viewport)
canvasRect ==
  pdfRectToCanvasRect(cropDraft[1].rect, CropPages[currentPage], viewportState[1])

\* the overlay's move region lies over the canvas and takes the mouse-down
OverOverlay(x, y) ==
  /\ OverlayMounted
  /\ RLeq(canvasRect.x, R(x))
  /\ RLeq(R(x), RAdd(canvasRect.x, canvasRect.w))
  /\ RLeq(canvasRect.y, R(y))
  /\ RLeq(R(y), RAdd(canvasRect.y, canvasRect.h))

\* handleMouseUp accepting every rectangle that is wide enough
belowMinimum_WidthOnly(rect) == RLess(rect.w, R(MinCropSize))

\* handleMouseUp: normalizedRect.w < 10 || normalizedRect.h < 10
belowMinimum(rect) ==
  \/ RLess(rect.w, R(MinCropSize))
  \/ RLess(rect.h, R(MinCropSize))

\* CropOverlay.handleMouseMove: the switch on dragHandle
resizeRect(rect, handle, deltaX, deltaY) ==
  LET dx == R(deltaX)
      dy == R(deltaY)
      west  == handle \in {"nw", "sw", "w"}
      east  == handle \in {"ne", "se", "e"}
      north == handle \in {"nw", "n", "ne"}
      south == handle \in {"se", "s", "sw"}
      move  == handle = "move"
  IN [x |-> IF west \/ move THEN RAdd(rect.x, dx) ELSE rect.x,
      y |-> IF north \/ move THEN RAdd(rect.y, dy) ELSE rect.y,
      w |-> IF west THEN RSub(rect.w, dx)
            ELSE IF east THEN RAdd(rect.w, dx) ELSE rect.w,
      h |-> IF north THEN RSub(rect.h, dy)
            ELSE IF south THEN RAdd(rect.h, dy) ELSE rect.h]

\* the clamping without the limit of the size to the room left
clampRect_NoRoomLimit(rect, vp) ==
  LET x == RMax(R(0), RMin(rect.x, RSub(vp.width, R(MinOverlaySize))))
      y == RMax(R(0), RMin(rect.y, RSub(vp.height, R(MinOverlaySize))))
  IN [x |-> x, y |-> y,
      w |-> RMax(R(MinOverlaySize), rect.w),
      h |-> RMax(R(MinOverlaySize), rect.h)]

\* CropOverlay.handleMouseMove: the four clamping assignments, in order
clampRect(rect, vp) ==
  LET x == RMax(R(0), RMin(rect.x, RSub(vp.width, R(MinOverlaySize))))
      y == RMax(R(0), RMin(rect.y, RSub(vp.height, R(MinOverlaySize))))
  IN [x |-> x, y |-> y,
      w |-> RMax(R(MinOverlaySize), RMin(rect.w, RSub(vp.width, x))),
      h |-> RMax(R(MinOverlaySize), RMin(rect.h, RSub(vp.height, y)))]

\* the overlay leaves the tree: its state and its document listeners go
Unmounted == overlay' = OverlayIdle /\ adjusted' = <<>>

\* the overlay after a change of the draft or of the page
Remount ==
  IF cropDraft' # <<>> /\ cropDraft'[1].page = currentPage'
    /\ cropDraft # <<>> /\ cropDraft[1].page = currentPage
  THEN UNCHANGED <<overlay, adjusted>>
  ELSE Unmounted

CropInit ==
  /\ kind = "crop"
  /\ pc = "open"
  /\ RangeUnused
  /\ GeoUnused
  /\ CoordUnused
  /\ SvgUnused
  /\ CacheUnused
  /\ StoreUnused
  /\ ViewUnused
  /\ MsgUnused
  /\ AcquireUnused
  /\ cropDraft = <<>>
  /\ currentPage = 0
  /\ \E c \in Containers : viewportState = viewportEffect(0, c)
  /\ isDragging = FALSE
  /\ dragStart = <<>>
  /\ dragRect = <<>>
  /\ overlay = OverlayIdle
  /\ adjusted = <<>>
  /\ cleared = FALSE

\* CanvasViewer.handleMouseDown on the canvas
CanvasMouseDown(x, y) ==
  /\ kind = "crop"
  /\ OnCanvas(x, y)
  /\ ~OverOverlay(x, y)
  /\ ~overlay.isDragging
  /\ isDragging' = TRUE
  /\ dragStart' = <<[x |-> R(x), y |-> R(y)]>>
  /\ dragRect' = <<CanvasBox(x, y, 0, 0)>>
  /\ cropDraft' = <<>>
  /\ cleared' = FALSE
  /\ Unmounted
  /\ UNCHANGED <<cacheVars, storeVars, viewVars, msgVars, acquireVars, kind, pc, rangeVars, geoVars, coordVars, svgRun, currentPage, viewportState>>

\* CanvasViewer.handleMouseMove on the canvas
CanvasMouseMove(x, y) ==
  /\ kind = "crop"
  /\ OnCanvas(x, y)
  /\ isDragging
  /\ dragStart # <<>>
  /\ dragRect' = <<[x |-> dragStart[1].x,
                    y |-> dragStart[1].y,
                    w |-> RSub(R(x), dragStart[1].x),
                    h |-> RSub(R(y), dragStart[1].y)]>>
  /\ UNCHANGED <<cacheVars, storeVars, viewVars, msgVars, acquireVars, kind, pc, rangeVars, geoVars, coordVars, svgRun, cropDraft, currentPage,
                 viewportState, isDragging, dragStart, overlay, adjusted, cleared>>

\* CanvasViewer.handleMouseUp, the handler of mouse-up and of mouse-leave
CanvasMouseUp ==
  /\ kind = "crop"
  /\ isDragging
  /\ dragRect # <<>>
  /\ viewportState # <<>>
  /\ currentPage >= 0
  /\ LET normalizedRect == normalizeRect(dragRect[1])
     IN IF belowMinimum(normalizedRect)
        THEN UNCHANGED cropDraft
        ELSE cropDraft' = <<[page |-> currentPage,
                             rect |-> canvasRectToPdfRect(normalizedRect,
                                        CropPages[currentPage], viewportState[1])]>>
  /\ isDragging' = FALSE
  /\ dragStart' = <<>>
  /\ dragRect' = <<>>
  /\ UNCHANGED <<currentPage, cleared>>
  /\ Remount
  /\ UNCHANGED <<cacheVars, storeVars, viewVars, msgVars, acquireVars, kind, pc, rangeVars, geoVars, coordVars, svgRun, viewportState>>

\* store.clearCropDraft
clearCropDraft ==
  /\ cropDraft' = <<>>
  /\ cleared' = TRUE
  /\ Unmounted

\* the keydown handler of CanvasViewer; a new page re-runs the viewport effect
\* in the container as it is then (c)
KeyDown(key, c) ==
  /\ kind = "crop"
  /\ NumPages > 0
  /\ currentPage >= 0
  /\ \/ /\ key \in {"ArrowLeft", "ArrowUp"}
        /\ currentPage > 0
        /\ currentPage' = currentPage - 1
        /\ viewportState' = viewportEffect(currentPage - 1, c)
        /\ UNCHANGED <<cropDraft, cleared>>
        /\ Remount
     \/ /\ key \in {"ArrowRight", "ArrowDown"}
        /\ currentPage < NumPages - 1
        /\ currentPage' = currentPage + 1
        /\ viewportState' = viewportEffect(currentPage + 1, c)
        /\ UNCHANGED <<cropDraft, cleared>>
        /\ Remount
     \/ /\ key = "Escape"
        /\ clearCropDraft
        /\ UNCHANGED <<currentPage, viewportState>>
  /\ UNCHANGED <<cacheVars, storeVars, viewVars, msgVars, acquireVars, kind, pc, rangeVars, geoVars, coordVars, svgRun, isDragging, dragStart, dragRect>>

\* the toolbar button that clears the crop: disabled={!cropDraft}
ClearClick ==
  /\ kind = "crop"
  /\ cropDraft # <<>>
  /\ clearCropDraft
  /\ UNCHANGED <<cacheVars, storeVars, viewVars, msgVars, acquireVars, kind, pc, rangeVars, geoVars, coordVars, svgRun, currentPage, viewportState,
                 isDragging, dragStart, dragRect>>

\* CropOverlay.handleMouseDown on a handle or on the move region
HandleMouseDown(handle) ==
  /\ kind = "crop"
  /\ OverlayMounted
  /\ ~overlay.isDragging
  /\ overlay' = [isDragging |-> TRUE, dragHandle |-> handle, dragStart |-> <<canvasRect>>]
  /\ UNCHANGED <<cacheVars, storeVars, viewVars, msgVars, acquireVars, kind, pc, rangeVars, geoVars, coordVars, svgRun, cropDraft, currentPage,
                 viewportState, isDragging, dragStart, dragRect, adjusted, cleared>>

\* CropOverlay.handleMouseMove, a listener of the document during a drag;
\* onUpdate is setCropDraft({page: currentPage, rect})
OverlayMouseMove(deltaX, deltaY) ==
  /\ kind = "crop"
  /\ OverlayMounted
  /\ overlay.isDragging
  /\ overlay.dragStart # <<>>
  /\ overlay.dragHandle # None
  /\ LET newRect == clampRect(resizeRect(overlay.dragStart[1], overlay.dragHandle,
                                         deltaX, deltaY), viewportState[1])
     IN /\ adjusted' = <<[rect |-> newRect, viewport |-> viewportState[1]]>>
        /\ cropDraft' = <<[page |-> currentPage,
                           rect |-> canvasRectToPdfRect(newRect, CropPages[currentPage],
                                                        viewportState[1])]>>
  /\ UNCHANGED <<cacheVars, storeVars, viewVars, msgVars, acquireVars, kind, pc, rangeVars, geoVars, coordVars, svgRun, currentPage, viewportState,
                 isDragging, dragStart, dragRect, overlay, cleared>>

\* CropOverlay.handleMouseUp, a listener of the document during a drag
OverlayMouseUp ==
  /\ kind = "crop"
  /\ OverlayMounted
  /\ overlay.isDragging
  /\ Unmounted
  /\ UNCHANGED <<cacheVars, storeVars, viewVars, msgVars, acquireVars, kind, pc, rangeVars, geoVars, coordVars, svgRun, cropDraft, currentPage,
                 viewportState, isDragging, dragStart, dragRect, cleared>>

CropNext ==
  \/ \E x, y \in Coords : CanvasMouseDown(x, y)
  \/ \E x, y \in Coords : CanvasMouseMove(x, y)
  \/ CanvasMouseUp
  \/ \E key \in Keys, c \in Containers : KeyDown(key, c)
  \/ ClearClick
  \/ \E handle \in ResizeHandles : HandleMouseDown(handle)
  \/ \E deltaX, deltaY \in Deltas : OverlayMouseMove(deltaX, deltaY)
  \/ OverlayMouseUp

CropSpec == CropInit /\ [][CropNext]_vars


(***************************************************************************)
(* Claims about the crop editor.                                           *)
(***************************************************************************)

\* the normalized rectangle of the define-drag in progress
DragNormalized == normalizeRect(dragRect[1])

\* it is at least 10 pixels wide and 10 pixels high
DragLargeEnough ==
  /\ RLeq(R(10), DragNormalized.w)
  /\ RLeq(R(10), DragNormalized.h)

\* C18: a mouse-up or mouse-leave that ends a define-drag commits a CropDraft
\* if and only if the normalized drag rectangle is at least 10 pixels wide and
\* 10 pixels high; the draft committed is {page: currentPage, rect:
\* canvasRectToPdfRect(normalizeRect(dragRect))} and has a non-negative width
\* and height whatever the direction of the drag; otherwise no CropDraft
\* exists afterwards; in both cases the define-drag is over.
C18_CommitOnMouseUp ==
  [][(isDragging /\ ~isDragging') =>
       /\ dragStart' = <<>>
       /\ dragRect' = <<>>
       /\ DragLargeEnough =>
            /\ cropDraft' = <<[page |-> currentPage,
                               rect |-> canvasRectToPdfRect(DragNormalized,
                                          CropPages[currentPage], viewportState[1])]>>
            /\ RLeq(R(0), cropDraft'[1].rect.width)
            /\ RLeq(R(0), cropDraft'[1].rect.height)
       /\ ~DragLargeEnough =>
            /\ cropDraft' = <<>>
            /\ overlay' = OverlayIdle]_vars

\* on the second page, in a 20 x 20 viewport, a drag from (15, 15) up and left
\* to (5, 5) has committed a draft of 10 x 10 points
C18_Witness ==
  /\ kind = "crop"
  /\ currentPage = 1
  /\ viewportState # <<>>
  /\ viewportState[1].width = R(20)
  /\ ~isDragging
  /\ dragRect = <<>>
  /\ overlay = OverlayIdle
  /\ cropDraft = <<[page |-> 1, rect |-> PdfBox(5, 5, 10, 10)]>>

\* the rectangle of an adjusting step lies in the viewport the step used and
\* is at least 10 pixels wide and high
AdjustedInViewport ==
  LET r == adjusted[1].rect
      v == adjusted[1].viewport
  IN /\ RLeq(R(0), r.x)
     /\ RLeq(R(0), r.y)
     /\ RLeq(RAdd(r.x, r.w), v.width)
     /\ RLeq(RAdd(r.y, r.h), v.height)
     /\ RLeq(R(10), r.w)
     /\ RLeq(R(10), r.h)

\* C19 as stated: for every handle, every drag delta and every viewport, the
\* canvas rectangle an adjusting step computes satisfies 0 <= x, 0 <= y,
\* x + w <= viewport.width, y + h <= viewport.height, w >= 10 and h >= 10.
C19_EveryViewport == adjusted # <<>> => AdjustedInViewport

\* C19: for every handle and every drag delta, in a viewport at least 10
\* pixels wide and 10 pixels high, the canvas rectangle an adjusting step
\* computes satisfies 0 <= x, 0 <= y, x + w <= viewport.width,
\* y + h <= viewport.height, w >= 10 and h >= 10.
C19_ViewportOfMinimumSize ==
  (/\ adjusted # <<>>
   /\ RLeq(R(10), adjusted[1].viewport.width)
   /\ RLeq(R(10), adjusted[1].viewport.height)) => AdjustedInViewport

\* in a 20 x 20 viewport the move handle took a 15 x 15 rectangle 5 pixels to
\* the right, up to the edge, and 15 pixels up, where it was held at y = 0
C19_Witness ==
  /\ kind = "crop"
  /\ adjusted # <<>>
  /\ overlay.isDragging
  /\ overlay.dragHandle = "move"
  /\ overlay.dragStart = <<CanvasBox(0, 0, 15, 15)>>
  /\ adjusted[1].viewport.width = R(20)
  /\ adjusted[1].rect = CanvasBox(5, 0, 15, 15)

\* C20: after Escape or an explicit clear, from every editor state, no
\* CropDraft exists until a new mouse-down on the canvas starts a rectangle.
C20_NoDraftAfterClear == cleared => cropDraft = <<>>


(***************************************************************************)
(* Properties of the render coordinator: timeouts, worker crashes,         *)
(* correlation ids, cleanup during a call.                                 *)
(***************************************************************************)

\* the step delivers the worker's response to message m
Answered(m) ==
  /\ m \in posted
  /\ ~m.answered
  /\ [m EXCEPT !.answered = TRUE] \in posted'

\* a call that was handed to sendMessage waits 30 s, a batch export 60 s
TimeoutOfOperation ==
  \A i \in DOMAIN calls :
    calls[i].timeout # 0 =>
      calls[i].timeout = IF calls[i].op = "export" THEN 60000 ELSE 30000

\* a request that timed out has no record, and once its call is over the
\* call was answered by the foreground and the coordinator is degraded
TimedOutIsFailure ==
  \A i \in DOMAIN calls :
    calls[i].bgError = "timeout" =>
      /\ calls[i].id \notin pendingMessages
      /\ calls[i].st \in {"bgFailed", "done"}
      /\ Done(calls[i]) =>
           /\ calls[i].ranLocal
           /\ calls[i].settled = SettledAs(LocalOf(calls[i]))
           /\ workerFailed

\* a response for an id without a record changes nothing of the coordinator
LateResponseIgnored ==
  \A m \in posted :
    (Answered(m) /\ m.id \notin pendingMessages) =>
      UNCHANGED <<calls, pendingMessages, timers, workerFailed, worker, messageId>>

\* a request leaves "waiting" once, and a settled call never changes
SettledOnce ==
  \A i \in DOMAIN calls :
    /\ calls[i].settled # "pending" => calls'[i] = calls[i]
    /\ (calls[i].st = "bgFailed" /\ calls'[i] # calls[i]) =>
         /\ Done(calls'[i])
         /\ calls'[i].ranLocal
    /\ calls[i].bgError # None => calls'[i].bgError = calls[i].bgError

\* C24: a request without a response within its timeout (30 s for render and
\* load, 60 s for a batch export) loses its pending record and is treated as
\* a worker failure: the call is answered by the foreground and the
\* coordinator stays degraded; a response for that id arriving later has no
\* effect; every request is settled exactly once however response, timeout
\* and cleanup interleave.
C24_TimeoutAbandons ==
  /\ []TimeoutOfOperation
  /\ []TimedOutIsFailure
  /\ [][LateResponseIgnored /\ SettledOnce]_vars

\* an export batch timed out, was answered by the foreground, and the
\* worker's response arrived afterwards
C24_Witness ==
  \E i \in DOMAIN calls :
    /\ calls[i].op = "export"
    /\ calls[i].timeout = 60000
    /\ calls[i].bgError = "timeout"
    /\ Recovered(calls[i])
    /\ calls[i].settled = "resolved"
    /\ \E m \in posted : m.call = i /\ m.answered

\* C25: after the worker raised an error event, every request pending then
\* is answered by the foreground, and from then on no request creates a
\* worker or posts a message, whether or not a request was pending when the
\* worker crashed.
C25_CrashDegrades ==
  /\ [](pc = "crashed" =>
          \A i \in DOMAIN calls :
            (calls[i].bgError = "disposed" /\ Done(calls[i])) => calls[i].ranLocal)
  /\ [][pc = "crashed" => (worker' = 0 /\ messageId' = messageId)]_vars

\* C26: a worker response settles the pending request with the id of the
\* response, resolving it with the response data or rejecting it, and leaves
\* every other request as it was; a response whose id has no pending request
\* changes nothing.
C26_ResponseSettlesById ==
  [][\A m \in posted :
       Answered(m) =>
         LET c == calls[m.call]
             r == WorkerCompute(c.op, c.buffer, c.tasks)
         IN /\ \A j \in DOMAIN calls : j # m.call => calls'[j] = calls[j]
            /\ pendingMessages' = pendingMessages \ {m.id}
            /\ timers' = timers \ ({m.id} \cap pendingMessages)
            /\ m.id \in pendingMessages =>
                 \/ /\ r.ok
                    /\ calls'[m.call].settled = "resolved"
                    /\ calls'[m.call].value = r.value
                    /\ ~calls'[m.call].ranLocal
                 \/ /\ calls'[m.call].st = "bgFailed"
                    /\ calls'[m.call].bgError = "worker"
                    /\ calls'[m.call].settled = "pending"
            /\ m.id \notin pendingMessages => calls' = calls]_vars

\* two requests were pending at once and the second was answered first: it
\* is resolved by the worker while the first still waits
C26_Witness ==
  /\ Len(calls) = 2
  /\ calls[1].st = "waiting"
  /\ calls[1].id \in pendingMessages
  /\ calls[2].id > calls[1].id
  /\ calls[2].settled = "resolved"
  /\ ~calls[2].ranLocal
  /\ calls[2].bgError = None

\* C28: a renderPage, exportPages or loadDocument call whose request was
\* rejected by cleanup() does not end with that rejection: the call is run
\* again in the foreground and ends as the foreground run ends, and the
\* coordinator is degraded afterwards.
C28_CleanupDuringCall ==
  \A i \in DOMAIN calls :
    calls[i].bgError = "disposed" =>
      /\ calls[i].st \in {"bgFailed", "done"}
      /\ calls[i].settled = "pending" <=> calls[i].st = "bgFailed"
      /\ Done(calls[i]) =>
           /\ calls[i].ranLocal
           /\ calls[i].settled = SettledAs(LocalOf(calls[i]))
           /\ calls[i].value = LocalOf(calls[i]).value
           /\ workerFailed

\* cleanup() rejected a waiting loadDocument and a waiting exportPages; both
\* were answered by the foreground
C28_Witness ==
  /\ workerFailed
  /\ worker = 0
  /\ \E i, j \in DOMAIN calls :
       /\ calls[i].op = "load" /\ calls[j].op = "export"
       /\ calls[i].bgError = "disposed" /\ calls[j].bgError = "disposed"
       /\ Recovered(calls[i]) /\ Recovered(calls[j])
       /\ calls[i].settled = "resolved" /\ calls[j].settled = "resolved"


(***************************************************************************)
(* The document cache of the worker (render.worker.ts 9-35, 234-250).  A   *)
(* buffer is a sequence of bytes; a document is told by the buffer it was  *)
(* loaded from.  getDocument runs in two steps, before and after its       *)
(* await, so the loads of two messages interleave.                         *)
(***************************************************************************)

\* getDocument calls in one run
MaxRequests == 2
\* longest buffer, in bytes
MaxBufferLen == 2
\* hashArrayBuffer reads this many bytes at most
HashPrefix == 1000

\* values of a byte tried
CacheBytes == {0, 1, 31}

RECURSIVE SeqsUpTo(_, _)
SeqsUpTo(S, n) ==
  IF n = 0 THEN {<<>>}
  ELSE LET shorter == SeqsUpTo(S, n - 1)
       IN shorter \cup {Append(q, b) : q \in {r \in shorter : Len(r) = n - 1}, b \in S}

\* the buffers sent to the worker
CacheBuffers == SeqsUpTo(CacheBytes, MaxBufferLen)

\* Arithmetic on signed 32-bit integers, as "<<" and "& 0xffffffff" leave
\* it: a sum past 2^31 - 1 or below -2^31 wraps around.
AddWrap(a, b) ==
  IF a > 0 /\ b > 2147483647 - a
  THEN ((a - 2147483647) - 1) + ((b - 2147483647) - 1)
  ELSE IF a < 0 /\ b < ((0 - 2147483647) - 1) - a
  THEN ((a + 2147483647) + 1) + ((b + 2147483647) + 1)
  ELSE a + b

NegWrap(a) == IF a = (0 - 2147483647) - 1 THEN a ELSE 0 - a

\* hash << 5
ShiftLeft5(h) ==
  LET h2  == AddWrap(h, h)
      h4  == AddWrap(h2, h2)
      h8  == AddWrap(h4, h4)
      h16 == AddWrap(h8, h8)
  IN AddWrap(h16, h16)

\* Number.prototype.toString(36) of an integer: sign and digits
RECURSIVE Digits36(_)
Digits36(n) == IF n < 36 THEN <<n>> ELSE Append(Digits36(n \div 36), n % 36)

ToString36(n) == [negative |-> n < 0, digits |-> Digits36(Abs(n))]

\* the loop of hashArrayBuffer over bytes i..Min(bytes.length, 1000)
RECURSIVE hashLoop(_, _, _)
hashLoop(bytes, i, hash) ==
  IF i > Len(bytes) \/ i > HashPrefix THEN hash
  ELSE hashLoop(bytes, i + 1,
                AddWrap(AddWrap(ShiftLeft5(hash), NegWrap(hash)), bytes[i]))

hashArrayBuffer(buffer) == ToString36(hashLoop(buffer, 1, 0))

\* pdfjsLib.getDocument({data}).promise: an empty buffer is no PDF
Parses(buffer) == buffer # <<>>

PdfDocument(buffer) == [source |-> buffer, numPages |-> Len(buffer)]

\* documentCache.has(hash)
CacheHas(hash) == \E e \in documentCache : e.hash = hash

\* documentCache.get(hash)
CacheGet(hash) == (CHOOSE e \in documentCache : e.hash = hash).doc

\* documentCache.set(hash, doc) on cache
CacheSet(cache, hash, doc) ==
  {e \in cache : e.hash # hash} \cup {[hash |-> hash, doc |-> doc]}

\* the delay of the cleanup timer: 5 * 60 * 1000 ms
CleanupDelay == 300000
\* the step of the clock, in ms
ClockStep == 100000

\* scheduleCleanup that arms a timer without clearing the armed one
scheduleCleanup_KeepsArmed(armed) == armed \cup {0}

\* scheduleCleanup: clearTimeout on the armed timer, then a new one
scheduleCleanup(armed) == {0}

\* the worker (kind "cache") or the foreground fallback (kind "foreground"),
\* which loads documents with pdfLoader.getPdfDocument
CacheInit ==
  /\ kind \in {"cache", "foreground"}
  /\ pc = "idle"
  /\ RangeUnused
  /\ GeoUnused
  /\ CoordUnused
  /\ SvgUnused
  /\ CropUnused
  /\ StoreUnused
  /\ ViewUnused
  /\ MsgUnused
  /\ AcquireUnused
  /\ documentCache = {}
  /\ requests = <<>>
  /\ cleanupTimers = {}
  /\ quiet = 0
  /\ cacheClears = 0

\* the worker receives a message: getDocument(arrayBuffer) up to its await
\* (a hit returns the cached document, a miss starts loading), then the
\* "message" listener calls scheduleCleanup
GetDocument(buffer) ==
  /\ kind = "cache"
  /\ Len(requests) < MaxRequests
  /\ LET hash == hashArrayBuffer(buffer)
     IN requests' = Append(requests,
          IF CacheHas(hash)
          THEN [buffer |-> buffer, st |-> "served", doc |-> <<CacheGet(hash)>>,
                load |-> FALSE, clears |-> cacheClears]
          ELSE [buffer |-> buffer, st |-> "loading", doc |-> <<>>,
                load |-> TRUE, clears |-> cacheClears])
  /\ cleanupTimers' = scheduleCleanup(cleanupTimers)
  /\ quiet' = 0
  /\ UNCHANGED <<documentCache, cacheClears, kind, pc, rangeVars, geoVars, coordVars, svgRun, cropVars, storeVars, viewVars, msgVars, acquireVars>>

\* getDocument after its await: the load ended; store the document under the
\* hash and return what the cache holds; a load that threw stores nothing
Loaded(i) ==
  /\ kind = "cache"
  /\ i \in DOMAIN requests
  /\ requests[i].st = "loading"
  /\ LET buffer == requests[i].buffer
         hash   == hashArrayBuffer(buffer)
         cache  == CacheSet(documentCache, hash, PdfDocument(buffer))
     IN IF Parses(buffer)
        THEN /\ documentCache' = cache
             /\ requests' = [requests EXCEPT ![i].st = "served",
                  ![i].doc = <<(CHOOSE e \in cache : e.hash = hash).doc>>]
        ELSE /\ requests' = [requests EXCEPT ![i].st = "failed"]
             /\ UNCHANGED documentCache
  /\ UNCHANGED <<cleanupTimers, quiet, cacheClears, kind, pc, rangeVars, geoVars, coordVars, svgRun, cropVars, storeVars, viewVars, msgVars, acquireVars>>

\* time passes while a cleanup timer is armed and none is due
Tick ==
  /\ kind = "cache"
  /\ cleanupTimers # {}
  /\ \A t \in cleanupTimers : t < CleanupDelay
  /\ cleanupTimers' = {t + ClockStep : t \in cleanupTimers}
  /\ quiet' = quiet + ClockStep
  /\ UNCHANGED <<documentCache, requests, cacheClears, kind, pc, rangeVars, geoVars, coordVars, svgRun, cropVars, storeVars, viewVars, msgVars, acquireVars>>

\* a cleanup timer that has run for five minutes fires: documentCache.clear()
CacheExpire ==
  /\ kind = "cache"
  /\ \E t \in cleanupTimers :
       /\ t >= CleanupDelay
       /\ cleanupTimers' = cleanupTimers \ {t}
  /\ documentCache' = {}
  /\ cacheClears' = cacheClears + 1
  /\ UNCHANGED <<requests, quiet, kind, pc, rangeVars, geoVars, coordVars, svgRun, cropVars, storeVars, viewVars, msgVars, acquireVars>>

\* pdfLoader.getPdfDocument(arrayBuffer) up to its await: the foreground
\* loads the document on every call
getPdfDocument(buffer) ==
  /\ kind = "foreground"
  /\ Len(requests) < MaxRequests
  /\ requests' = Append(requests,
       [buffer |-> buffer, st |-> "loading", doc |-> <<>>, load |-> TRUE,
        clears |-> cacheClears])
  /\ UNCHANGED <<documentCache, cleanupTimers, quiet, cacheClears, kind, pc, rangeVars, geoVars, coordVars, svgRun, cropVars, storeVars, viewVars, msgVars, acquireVars>>

\* getPdfDocument after its await
PdfLoaded(i) ==
  /\ kind = "foreground"
  /\ i \in DOMAIN requests
  /\ requests[i].st = "loading"
  /\ requests' = IF Parses(requests[i].buffer)
                 THEN [requests EXCEPT ![i].st = "served",
                         ![i].doc = <<PdfDocument(requests[i].buffer)>>]
                 ELSE [requests EXCEPT ![i].st = "failed"]
  /\ UNCHANGED <<documentCache, cleanupTimers, quiet, cacheClears, kind, pc, rangeVars, geoVars, coordVars, svgRun, cropVars, storeVars, viewVars, msgVars, acquireVars>>

CacheNext ==
  \/ \E buffer \in CacheBuffers : GetDocument(buffer)
  \/ \E i \in 1..MaxRequests : Loaded(i)
  \/ Tick
  \/ CacheExpire
  \/ \E buffer \in CacheBuffers : getPdfDocument(buffer)
  \/ \E i \in 1..MaxRequests : PdfLoaded(i)

CacheSpec == CacheInit /\ [][CacheNext]_vars

(***************************************************************************)
(* Claims about the document cache.                                        *)
(***************************************************************************)

\* C27: the document that serves a worker request was loaded from a buffer
\* with the content of the request's buffer, also when two different buffers
\* have the same cache key.
C27_ServedFromOwnBuffer ==
  \A i \in DOMAIN requests :
    requests[i].st = "served" => requests[i].doc[1].source = requests[i].buffer

\* the cache is cleared in this step
Clears == cacheClears' # cacheClears

\* a message arrives in this step
Receives == Len(requests') = Len(requests) + 1

\* C33: cache expiry is driven by inactivity and reset by every request:
\* each message cancels the armed timer and arms a new 5-minute one, so the
\* cache is cleared only when a full 5 minutes pass with no incoming
\* request, and after a clear the next request reloads its document.
C33_ExpiryAfterInactivity ==
  /\ [](kind = "cache" => Cardinality(cleanupTimers) <= 1)
  /\ [][(kind = "cache" /\ Receives) => cleanupTimers' = {0}]_vars
  /\ [][Clears => (quiet >= CleanupDelay /\ documentCache' = {})]_vars
  /\ [][(kind = "cache" /\ Receives /\ documentCache = {})
          => requests'[Len(requests')].load]_vars

\* a document was served, a later message reset the timer, the cache was
\* cleared five minutes after it, and the same document was loaded again
C33_Witness ==
  /\ kind = "cache"
  /\ cacheClears = 1
  /\ Len(requests) = 2
  /\ requests[1].buffer = requests[2].buffer
  /\ requests[1].clears = 0 /\ requests[1].st = "served"
  /\ requests[2].clears = 1 /\ requests[2].load /\ requests[2].st = "served"

\* C34: in the worker and in the foreground fallback alike, a request whose
\* buffer has the content of an earlier request of that context, with no
\* cache expiry in between, reuses the loaded document instead of loading
\* it again, also when the two requests overlap in time.
C34_LoadedOnce ==
  \A i, j \in DOMAIN requests :
    (i < j /\ requests[i].buffer = requests[j].buffer
           /\ requests[i].clears = requests[j].clears
           /\ Parses(requests[i].buffer))
      => ~requests[j].load

(***************************************************************************)
(* The page list of the store (part_007), edited from the toolbar and the  *)
(* thumbnail list, and the PDF files ExportModal and SplitModal download.  *)
(* A PDF document is the sequence of the original page indices it holds.   *)
(* The store's currentPage is the variable the crop tool reads.            *)
(***************************************************************************)
\* the largest page count of an opened document
MaxDocPages == 3

cropRest == <<cropDraft, viewportState, isDragging, dragStart, dragRect,
              overlay, adjusted, cleared>>

\* the file as loaded: arrayBuffer holds every page in its original order
OriginalFile(n) == [i \in 1..n |-> i - 1]

\* array.filter(i => !indexSet.has(i))
FilterOut(order, indexSet) == SelectSeq(order, LAMBDA i : i \notin indexSet)

\* array.splice(k, 1) and array.splice(k, 0, x) at a 0-based position k
SpliceOut(list, k) == SubSeq(list, 1, k) \o SubSeq(list, k + 2, Len(list))
SpliceIn(list, k, x) ==
  LET at == IF k > Len(list) THEN Len(list) ELSE k
  IN SubSeq(list, 1, at) \o <<x>> \o SubSeq(list, at + 1, Len(list))

\* moveItem inserting the dragged page without removing it first
moveItem_KeepsDragged(order, dragIndex, hoverIndex) ==
  SpliceIn(order, hoverIndex, order[dragIndex + 1])

\* ThumbnailList.moveItem: the new order handed to setPageOrder
moveItem(order, dragIndex, hoverIndex) ==
  SpliceIn(SpliceOut(order, dragIndex), hoverIndex, order[dragIndex + 1])

\* the page that becomes current when the current one is deleted
FirstOrNull(order) == IF Len(order) > 0 THEN order[1] ELSE 0 - 1

\* store.deletePages: the fields it sets
deletePages(indices) ==
  LET newPageOrder == FilterOut(pageOrder, indices)
  IN [pageOrder |-> newPageOrder,
      selection |-> selection \ indices,
      currentPage |-> IF currentPage # 0 - 1 /\ currentPage \in indices
                      THEN FirstOrNull(newPageOrder) ELSE currentPage]

\* useCanDelete
canDelete ==
  Cardinality(selection) > 0 /\ Len(pageOrder) > Cardinality(selection)

\* pdfEdit.extractRanges: the pages start..end of every range that exist
RECURSIVE extractRanges(_, _)
extractRanges(doc, ranges) ==
  IF ranges = <<>> THEN <<>>
  ELSE LET start == Head(ranges)[1]
           end   == Head(ranges)[2]
           nums  == SelectSeq([i \in 1..(IF end >= start THEN end - start + 1 ELSE 0)
                                 |-> start + i - 1],
                              LAMBDA p : p > 0 /\ p <= Len(doc))
       IN [i \in 1..Len(nums) |-> doc[nums[i]]] \o extractRanges(doc, Tail(ranges))

\* the expressions typed into the range field of SplitModal
SplitExprs ==
  { <<"1", ",", "3">>, <<"1", "-", "3">>, <<"1", "-">>, <<"3">>,
    <<"-", "1">>, <<"3", ",", "1">>, <<"x">>, <<>> }

\* no export or split dialog is open: the modal overlay of a dialog covers
\* the toolbar and the thumbnail list
NoModal == exported = <<>>

StoreInit ==
  /\ RangeUnused
  /\ GeoUnused
  /\ CoordUnused
  /\ SvgUnused
  /\ CropUnused
  /\ CacheUnused
  /\ ViewUnused
  /\ MsgUnused
  /\ AcquireUnused
  /\ StoreUnused
  /\ kind = "store"
  /\ pc = "closed"

\* store.openFile with a valid PDF of n pages (validatePdfBuffer refuses a
\* document without pages); a refused file leaves the page list as it was
openFile(n, valid) ==
  /\ kind = "store"
  /\ NoModal
  /\ IF valid
     THEN /\ storePages' = n
          /\ pageOrder' = OriginalFile(n)
          /\ selection' = {}
          /\ currentPage' = IF n > 0 THEN 0 ELSE 0 - 1
          /\ pc' = "open"
     ELSE UNCHANGED <<storePages, pageOrder, selection, currentPage, pc>>
  /\ UNCHANGED <<exported, cropRest, cacheVars, viewVars, msgVars, acquireVars, kind, rangeVars,
                 geoVars, coordVars, svgRun>>

\* store.closeFile
closeFile ==
  /\ kind = "store"
  /\ NoModal
  /\ pc = "open"
  /\ storePages' = 0
  /\ pageOrder' = <<>>
  /\ selection' = {}
  /\ currentPage' = 0 - 1
  /\ pc' = "closed"
  /\ UNCHANGED <<exported, cropRest, cacheVars, viewVars, msgVars, acquireVars, kind, rangeVars,
                 geoVars, coordVars, svgRun>>

\* ThumbnailItem.handleClick on the thumbnail of page pageIndex
ThumbnailClick(pageIndex, key) ==
  /\ kind = "store"
  /\ NoModal
  /\ pageIndex \in Range(pageOrder)
  /\ IF key = "ctrl"
     THEN /\ selection' = IF pageIndex \in selection
                          THEN selection \ {pageIndex}
                          ELSE selection \cup {pageIndex}
          /\ UNCHANGED currentPage
     ELSE IF key = "shift" /\ currentPage # 0 - 1
     THEN LET start == IF currentPage < pageIndex THEN currentPage ELSE pageIndex
              end   == IF currentPage < pageIndex THEN pageIndex ELSE currentPage
          IN /\ selection' = selection \cup (start..end)
             /\ UNCHANGED currentPage
     ELSE /\ selection' = {pageIndex}
          /\ currentPage' = pageIndex
  /\ UNCHANGED <<storePages, pageOrder, exported, pc, cropRest, cacheVars,
                 viewVars, msgVars, acquireVars, kind, rangeVars, geoVars, coordVars, svgRun>>

\* Toolbar.handleSelectAll and handleClearSelection
selectAllPages ==
  /\ kind = "store"
  /\ NoModal
  /\ pc = "open"
  /\ selection' = Range(pageOrder)
  /\ UNCHANGED <<storePages, pageOrder, exported, currentPage, pc, cropRest,
                 cacheVars, viewVars, msgVars, acquireVars, kind, rangeVars, geoVars, coordVars,
                 svgRun>>

clearSelection ==
  /\ kind = "store"
  /\ NoModal
  /\ pc = "open"
  /\ selection' = {}
  /\ UNCHANGED <<storePages, pageOrder, exported, currentPage, pc, cropRest,
                 cacheVars, viewVars, msgVars, acquireVars, kind, rangeVars, geoVars, coordVars,
                 svgRun>>

\* Toolbar.handleDeleteSelected: deletePages(selection), then clearSelection
handleDeleteSelected ==
  /\ kind = "store"
  /\ NoModal
  /\ canDelete
  /\ LET d == deletePages(selection)
     IN /\ pageOrder' = d.pageOrder
        /\ currentPage' = d.currentPage
        /\ selection' = {}
  /\ UNCHANGED <<storePages, exported, pc, cropRest, cacheVars, viewVars, msgVars, acquireVars,
                 kind, rangeVars, geoVars, coordVars, svgRun>>

\* store.deletePage
deletePage(index) ==
  /\ kind = "store"
  /\ NoModal
  /\ pc = "open"
  /\ LET newPageOrder == FilterOut(pageOrder, {index})
     IN /\ pageOrder' = newPageOrder
        /\ selection' = selection \ {index}
        /\ currentPage' = IF currentPage = index
                          THEN FirstOrNull(newPageOrder) ELSE currentPage
  /\ UNCHANGED <<storePages, exported, pc, cropRest, cacheVars, viewVars, msgVars, acquireVars,
                 kind, rangeVars, geoVars, coordVars, svgRun>>

\* ThumbnailItem hover during a drag: the dragged thumbnail, at position
\* item.index, is over the thumbnail at another position of the list
ThumbnailHover(dragIndex, hoverIndex) ==
  /\ kind = "store"
  /\ NoModal
  /\ dragIndex \in 0..(Len(pageOrder) - 1)
  /\ hoverIndex \in 0..(Len(pageOrder) - 1)
  /\ dragIndex # hoverIndex
  /\ pageOrder' = moveItem(pageOrder, dragIndex, hoverIndex)
  /\ UNCHANGED <<storePages, selection, exported, currentPage, pc, cropRest,
                 cacheVars, viewVars, msgVars, acquireVars, kind, rangeVars, geoVars, coordVars,
                 svgRun>>

\* Array.from(selection).sort((a, b) => a - b)
RECURSIVE SortedSelection(_)
SortedSelection(S) ==
  IF S = {} THEN <<>>
  ELSE LET m == CHOOSE x \in S : \A y \in S : x <= y
       IN <<m>> \o SortedSelection(S \ {m})

\* the text ExportModal puts into its range field when it opens
DefaultPageRange ==
  LET selectedPages == IF selection # {} THEN SortedSelection(selection)
                       ELSE pageOrder
  IN formatPageRange([i \in 1..Len(selectedPages) |-> selectedPages[i] + 1])

\* ExportModal.handleExport with format 'pdf': pdfData is the arrayBuffer of
\* the store; setCropBox and hardCropToMediaBox change page boxes only
handleExportPdf ==
  /\ kind = "store"
  /\ pc = "open"
  /\ NoModal
  /\ validatePageExpr(DefaultPageRange, storePages).valid
  /\ exported' = << [op |-> "export", pageRange |-> DefaultPageRange,
                     files |-> <<OriginalFile(storePages)>>] >>
  /\ UNCHANGED <<storePages, pageOrder, selection, currentPage, pc, cropRest,
                 cacheVars, viewVars, msgVars, acquireVars, kind, rangeVars, geoVars, coordVars,
                 svgRun>>

\* SplitModal.handleSplit in range mode
handleSplit(pageRange) ==
  /\ kind = "store"
  /\ pc = "open"
  /\ NoModal
  /\ validatePageExpr(pageRange, Len(pageOrder)).valid
  /\ LET reordered   == extractRanges(OriginalFile(storePages),
                          [i \in 1..Len(pageOrder)
                             |-> <<pageOrder[i] + 1, pageOrder[i] + 1>>])
         pages1Based == parsePageExpr(pageRange, Len(pageOrder))
         ranges      == IF Len(pages1Based) > 0
                        THEN << <<pages1Based[1], pages1Based[Len(pages1Based)]>> >>
                        ELSE <<>>
     IN exported' = << [op |-> "split", pageRange |-> pageRange,
                        files |-> [i \in 1..Len(ranges)
                                     |-> extractRanges(reordered, <<ranges[i]>>)]] >>
  /\ UNCHANGED <<storePages, pageOrder, selection, currentPage, pc, cropRest,
                 cacheVars, viewVars, msgVars, acquireVars, kind, rangeVars, geoVars, coordVars,
                 svgRun>>

\* onClose of ExportModal or SplitModal
onClose ==
  /\ kind = "store"
  /\ ~NoModal
  /\ exported' = <<>>
  /\ UNCHANGED <<storePages, pageOrder, selection, currentPage, pc, cropRest,
                 cacheVars, viewVars, msgVars, acquireVars, kind, rangeVars, geoVars, coordVars,
                 svgRun>>

\* CanvasViewer: the position of currentPage in pageOrder (indexOf), 0 when
\* it is not there
currentDisplayPosition ==
  IF currentPage \in Range(pageOrder)
  THEN CHOOSE i \in 1..Len(pageOrder) : pageOrder[i] = currentPage
  ELSE 0

\* CanvasViewer.handleKeyDown on an arrow key, a listener of the window: it
\* steps through store.pages, the pages of the file as opened
ViewerKeyDown(key) ==
  /\ kind = "store"
  /\ storePages > 0
  /\ currentPage # 0 - 1
  /\ \/ /\ key \in {"ArrowLeft", "ArrowUp"}
        /\ currentPage > 0
        /\ currentPage' = currentPage - 1
     \/ /\ key \in {"ArrowRight", "ArrowDown"}
        /\ currentPage < storePages - 1
        /\ currentPage' = currentPage + 1
  /\ UNCHANGED <<storeVars, pc, cropRest, cacheVars, viewVars, msgVars, acquireVars,
                 kind, rangeVars, geoVars, coordVars, svgRun>>

\* CanvasViewer: the previous-page button, disabled at the first position
PreviousClick ==
  /\ kind = "store"
  /\ NoModal
  /\ currentDisplayPosition > 1
  /\ currentPage' = pageOrder[currentDisplayPosition - 1]
  /\ UNCHANGED <<storeVars, pc, cropRest, cacheVars, viewVars, msgVars, acquireVars,
                 kind, rangeVars, geoVars, coordVars, svgRun>>

\* CanvasViewer: the next-page button, disabled at the last position and
\* when currentPage is not in pageOrder
NextClick ==
  /\ kind = "store"
  /\ NoModal
  /\ currentDisplayPosition >= 1
  /\ currentDisplayPosition < Len(pageOrder)
  /\ currentPage' = pageOrder[currentDisplayPosition + 1]
  /\ UNCHANGED <<storeVars, pc, cropRest, cacheVars, viewVars, msgVars, acquireVars,
                 kind, rangeVars, geoVars, coordVars, svgRun>>

StoreNext ==
  \/ \E n \in 1..MaxDocPages, valid \in BOOLEAN : openFile(n, valid)
  \/ closeFile
  \/ \E i \in 0..(MaxDocPages - 1), key \in {"plain", "ctrl", "shift"} :
       ThumbnailClick(i, key)
  \/ selectAllPages
  \/ clearSelection
  \/ handleDeleteSelected
  \/ \E i \in 0..(MaxDocPages - 1) : deletePage(i)
  \/ \E d \in 0..(MaxDocPages - 1), h \in 0..(MaxDocPages - 1) :
       ThumbnailHover(d, h)
  \/ handleExportPdf
  \/ \E e \in SplitExprs : handleSplit(e)
  \/ onClose
  \/ \E key \in {"ArrowLeft", "ArrowUp", "ArrowRight", "ArrowDown"} :
       ViewerKeyDown(key)
  \/ PreviousClick
  \/ NextClick

StoreSpec == StoreInit /\ [][StoreNext]_vars

(***************************************************************************)
(* Properties of the page list, of PDF export and of split by range.       *)
(***************************************************************************)
\* C21: after any sequence of openFile, deletePage, deletePages and
\* thumbnail drag-reorder operations, pageOrder holds only valid indices
\* into the loaded pages array, holds no index twice, and is no longer than
\* the pages array.
C21_PageOrderValid ==
  /\ \A i \in 1..Len(pageOrder) : pageOrder[i] \in 0..(storePages - 1)
  /\ \A i, j \in 1..Len(pageOrder) : pageOrder[i] = pageOrder[j] => i = j
  /\ Len(pageOrder) <= storePages

\* a page was deleted and the remaining pages were dragged out of order
C21_Witness ==
  /\ pc = "open"
  /\ Len(pageOrder) = 2
  /\ storePages = 3
  /\ pageOrder[1] > pageOrder[2]

\* the pages, in order, a range expression denotes in the current page order
DenotedPages(order, pageRange) ==
  LET pages1Based == parsePageExpr(pageRange, Len(order))
  IN [i \in 1..Len(pages1Based) |-> order[pages1Based[i]]]

\* C22: a PDF exported after pages were deleted holds exactly the pages that
\* remain in the current page order and none of the deleted pages.
C22_ExportedPagesRemain ==
  \A i \in 1..Len(exported) :
    exported[i].op = "export"
      => /\ Len(exported[i].files) = 1
         /\ Range(exported[i].files[1]) = Range(pageOrder)
         /\ Len(exported[i].files[1]) = Len(pageOrder)

\* C23: split by a range expression downloads one PDF that holds exactly the
\* pages the expression denotes in the current page order, and no others.
C23_SplitPagesDenoted ==
  \A i \in 1..Len(exported) :
    exported[i].op = "split"
      => /\ Len(exported[i].files) = 1
         /\ exported[i].files[1]
              = DenotedPages(pageOrder, exported[i].pageRange)

(***************************************************************************)
(* The load effects of CanvasViewer (part_002 324-363) and ThumbnailItem   *)
(* (part_002 66-102).  The dependencies of the effect (arrayBuffer, page   *)
(* index, scale, page) are one value: 0 when the viewer has no page, and a *)
(* positive number for each combination of document, page and scale.  A    *)
(* bitmap is named by the run of the effect that requested it.             *)
(***************************************************************************)
\* the runs of the load effect in one execution
MaxEffects == 3
\* the distinct values of the dependencies
MaxInputs == 2

\* the run of the effect whose cleanup is registered: 0 when there is none
LiveEffect ==
  IF \E i \in 1..Len(effects) : ~effects[i].cancelled
  THEN CHOOSE i \in 1..Len(effects) : ~effects[i].cancelled
  ELSE 0

\* the runs whose renderPage call has settled
Settled == {i \in 1..Len(effects) : effects[i].arrivedAt > 0}

\* the bitmap in the image state: 0 for null
ShownBitmap == IF renderedImage = <<>> THEN 0 ELSE renderedImage[1]

\* the function the effect returned: cancelled = true, and close() on the
\* image the component held when the effect ran
CleanupEffects ==
  IF LiveEffect = 0 THEN effects
  ELSE [effects EXCEPT ![LiveEffect].cancelled = TRUE]

CleanupClosed ==
  IF LiveEffect = 0 \/ effects[LiveEffect].captured = 0 THEN closed
  ELSE closed \cup {effects[LiveEffect].captured}

\* the body of the effect for the dependencies in: the run it starts
NewEffect(in, image) ==
  [inputs |-> in, cancelled |-> FALSE, captured |-> image, arrivedAt |-> 0,
   ok |-> FALSE]

ViewInit ==
  /\ RangeUnused
  /\ GeoUnused
  /\ CoordUnused
  /\ SvgUnused
  /\ CropUnused
  /\ CacheUnused
  /\ StoreUnused
  /\ ViewUnused
  /\ MsgUnused
  /\ AcquireUnused
  /\ kind \in {"viewer", "thumbnail"}
  /\ pc = "unmounted"

\* the component mounts and its effect runs for the first time; a thumbnail
\* is rendered for a page of an open document only
Mount(in) ==
  /\ kind \in {"viewer", "thumbnail"}
  /\ ~mounted
  /\ Len(effects) < MaxEffects
  /\ kind = "thumbnail" => in # 0
  /\ mounted' = TRUE
  /\ viewInputs' = in
  /\ renderedImage' = <<>>
  /\ viewError' = <<>>
  /\ effects' = IF in = 0 THEN effects ELSE Append(effects, NewEffect(in, 0))
  /\ pc' = "mounted"
  /\ UNCHANGED <<closed, kind, rangeVars, geoVars, coordVars, svgRun,
                 cropVars, cacheVars, storeVars, msgVars, acquireVars>>

\* a dependency changes: the cleanup of the previous run, then the effect
\* again; the viewer without a page sets its image to null and returns
DepsChange(in) ==
  /\ mounted
  /\ in # viewInputs
  /\ Len(effects) < MaxEffects
  /\ kind = "thumbnail" => in # 0
  /\ viewInputs' = in
  /\ closed' = CleanupClosed
  /\ IF in = 0
     THEN /\ effects' = CleanupEffects
          /\ renderedImage' = <<>>
          /\ UNCHANGED viewError
     ELSE /\ effects' = Append(CleanupEffects, NewEffect(in, ShownBitmap))
          /\ viewError' = <<>>
          /\ UNCHANGED renderedImage
  /\ UNCHANGED <<mounted, kind, pc, rangeVars, geoVars, coordVars, svgRun,
                 cropVars, cacheVars, storeVars, msgVars, acquireVars>>

\* loadPage resuming after the await with a bitmap, storing it whether or
\* not the run was cancelled
RenderResolves_IgnoresCancelled(i) ==
  /\ i \in 1..Len(effects)
  /\ effects[i].arrivedAt = 0
  /\ effects' = [effects EXCEPT ![i].arrivedAt = Cardinality(Settled) + 1,
                                ![i].ok = TRUE]
  /\ renderedImage' = <<i>>
  /\ UNCHANGED <<mounted, viewInputs, viewError, closed, kind, pc, rangeVars,
                 geoVars, coordVars, svgRun, cropVars, cacheVars, storeVars, msgVars, acquireVars>>

\* loadPage resuming after the await with the bitmap of run i
RenderResolves(i) ==
  /\ i \in 1..Len(effects)
  /\ effects[i].arrivedAt = 0
  /\ effects' = [effects EXCEPT ![i].arrivedAt = Cardinality(Settled) + 1,
                                ![i].ok = TRUE]
  /\ renderedImage' = IF ~effects[i].cancelled THEN <<i>> ELSE renderedImage
  /\ UNCHANGED <<mounted, viewInputs, viewError, closed, kind, pc, rangeVars,
                 geoVars, coordVars, svgRun, cropVars, cacheVars, storeVars, msgVars, acquireVars>>

\* loadPage resuming in its catch block
RenderRejects(i) ==
  /\ i \in 1..Len(effects)
  /\ effects[i].arrivedAt = 0
  /\ effects' = [effects EXCEPT ![i].arrivedAt = Cardinality(Settled) + 1]
  /\ viewError' = IF ~effects[i].cancelled THEN <<i>> ELSE viewError
  /\ UNCHANGED <<mounted, viewInputs, renderedImage, closed, kind, pc,
                 rangeVars, geoVars, coordVars, svgRun, cropVars, cacheVars,
                 storeVars, msgVars, acquireVars>>

\* the component unmounts: the cleanup of the last run; its state is gone
Unmount ==
  /\ mounted
  /\ mounted' = FALSE
  /\ effects' = CleanupEffects
  /\ closed' = CleanupClosed
  /\ renderedImage' = <<>>
  /\ viewError' = <<>>
  /\ viewInputs' = 0
  /\ pc' = "unmounted"
  /\ UNCHANGED <<kind, rangeVars, geoVars, coordVars, svgRun, cropVars,
                 cacheVars, storeVars, msgVars, acquireVars>>

ViewNext ==
  \/ \E in \in 0..MaxInputs : Mount(in)
  \/ \E in \in 0..MaxInputs : DepsChange(in)
  \/ \E i \in 1..MaxEffects : RenderResolves(i)
  \/ \E i \in 1..MaxEffects : RenderRejects(i)
  \/ Unmount

ViewSpec == ViewInit /\ [][ViewNext]_vars

(***************************************************************************)
(* Properties of the load effects: stale results and the bitmaps.          *)
(***************************************************************************)
\* the renderPage call of run i settles in this step
Settles(i) ==
  /\ i \in 1..Len(effects)
  /\ effects[i].arrivedAt = 0
  /\ Len(effects') = Len(effects)
  /\ effects'[i].arrivedAt > 0

\* run i is stale: its dependencies are no longer the current ones, or the
\* component was unmounted
Stale(i) == ~mounted \/ effects[i].cancelled \/ effects[i].inputs # viewInputs

\* a result or an error that arrives stale changes neither the image state
\* nor the error state
StaleDiscarded ==
  \A i \in 1..MaxEffects :
    (Settles(i) /\ Stale(i))
      => (renderedImage' = renderedImage /\ viewError' = viewError)

\* an image or an error that is stored belongs to the current dependencies
\* of a mounted component
StoredIsCurrent ==
  /\ (renderedImage' # renderedImage /\ renderedImage' # <<>>)
       => (mounted' /\ effects'[renderedImage'[1]].inputs = viewInputs')
  /\ (viewError' # viewError /\ viewError' # <<>>)
       => (mounted' /\ effects'[viewError'[1]].inputs = viewInputs')

\* C29 as stated: a stale result or error is never stored, so the displayed
\* image always belongs to the page, scale and document currently of
\* interest, in the viewer and in each thumbnail.
C29_DisplayedIsCurrent ==
  /\ [][StaleDiscarded]_vars
  /\ [](renderedImage # <<>> => effects[renderedImage[1]].inputs = viewInputs)

\* C29, amended: a render result or error that arrives after the inputs of
\* its request changed or after the component unmounted is never stored, and
\* whatever is stored belongs to the current inputs at the time it is
\* stored, in whatever order the calls complete; the image of the previous
\* inputs stays displayed until the result for the new inputs arrives.
C29_StaleNeverStored == [][StaleDiscarded /\ StoredIsCurrent]_vars

\* the request of the first run completed after the request of the second
\* run, whose image is displayed
C29_Witness ==
  /\ mounted
  /\ Len(effects) >= 2
  /\ effects[2].arrivedAt > 0
  /\ effects[1].arrivedAt > effects[2].arrivedAt
  /\ effects[1].ok
  /\ renderedImage = <<2>>

\* the bitmaps the coordinator delivered
Delivered == {i \in 1..Len(effects) : effects[i].arrivedAt > 0 /\ effects[i].ok}

\* the bitmaps the component can still reach: the displayed one, and the
\* one the registered cleanup will close
Held ==
  IF ~mounted THEN {}
  ELSE ({ShownBitmap} \cup
        (IF LiveEffect = 0 THEN {} ELSE {effects[LiveEffect].captured})) \ {0}

\* C30: every bitmap obtained from the coordinator is closed once its
\* consumer has finished with it: one that was replaced, one whose
\* component unmounted, one that arrived stale and was discarded.
C30_BitmapsClosed == \A b \in Delivered : b \in closed \/ b \in Held

(***************************************************************************)
(* Properties of the render coordinator: the worker it holds, the          *)
(* correlation ids and the count of pending requests.                      *)
(***************************************************************************)
\* the Worker objects constructed so far, and those not yet terminated
CreatedWorkers == {calls[i].w : i \in {j \in DOMAIN calls : calls[j].createdWorker}}

LiveWorkers == CreatedWorkers \ terminated

\* at most one live worker, the one the coordinator holds; none before a
\* request took the background path, none on an unsupported platform
OneWorker ==
  /\ Cardinality(LiveWorkers) <= 1
  /\ LiveWorkers = IF worker = 0 THEN {} ELSE {worker}
  /\ ~workerSupported => CreatedWorkers = {}
  /\ (\A i \in DOMAIN calls : calls[i].w = 0) => worker = 0

\* a worker is constructed only by a request that takes the background
\* path on a supported, healthy coordinator that holds no worker
CreatedLazily ==
  (worker' # worker /\ worker' # 0)
    => /\ workerSupported /\ ~workerFailed
       /\ worker = 0
       /\ Len(calls') = Len(calls) + 1
       /\ calls'[Len(calls')].createdWorker
       /\ calls'[Len(calls')].w = worker'

\* a request that takes the background path uses the worker held
WorkerShared ==
  (Len(calls') = Len(calls) + 1 /\ calls'[Len(calls')].w # 0)
    => calls'[Len(calls')].w = worker'

\* C31: the worker is created lazily and singly: no worker exists before
\* the first request that takes the background path, none is created while
\* the platform is unsupported or the coordinator is degraded, and a
\* coordinator holds at most one live worker, which healthy requests share.
C31_OneLazyWorker == []OneWorker /\ [][CreatedLazily /\ WorkerShared]_vars

\* two requests went to the same worker, which the first one created
C31_Witness ==
  /\ Len(calls) = 2
  /\ calls[1].createdWorker /\ ~calls[2].createdWorker
  /\ calls[1].w = worker /\ calls[2].w = worker
  /\ worker # 0

\* the correlation id of a dispatched request: `msg_${++messageId}_${Date.now()}`
IdText(n, now) == <<"m", "s", "g", "_">> \o toString(n) \o <<"_">> \o toString(now)

IdOf(i) == IdText(calls[i].id, calls[i].stamp)

Dispatched == {i \in DOMAIN calls : calls[i].id # 0}

\* C32: the correlation ids of the pending requests are pairwise distinct,
\* and an id is never used again for a later request, even when requests
\* are issued within the same millisecond.
C32_IdsUnique ==
  \A i, j \in Dispatched : IdOf(i) = IdOf(j) => i = j

\* two requests dispatched in the same millisecond are pending together
C32_Witness ==
  /\ Len(calls) = 2
  /\ calls[1].st = "waiting" /\ calls[2].st = "waiting"
  /\ calls[1].stamp = calls[2].stamp
  /\ Cardinality(pendingMessages) = 2

\* the requests that were dispatched and are not settled
Unsettled == {i \in Dispatched : calls[i].st = "waiting"}

\* C38: getPendingTaskCount() always equals the number of requests that
\* were dispatched and are not yet settled; once a request is settled by a
\* response, a timeout, cleanup or a failure to post its message, its record
\* is gone and its timer is no longer armed.
C38_PendingCount ==
  /\ Cardinality(pendingMessages) = Cardinality(Unsettled)
  /\ pendingMessages = {calls[i].id : i \in Unsettled}
  /\ timers = pendingMessages

(***************************************************************************)
(* The message handler of the worker (render.worker.ts 161-231).  The      *)
(* handler of a message runs up to its first await when the message        *)
(* arrives and ends, after the awaited work, by posting a response; the    *)
(* handlers of several messages interleave at their awaits.                *)
(***************************************************************************)
\* messages the worker receives in one run
MaxMessages == 2

\* the messages: render, export and load requests, and one of a type the
\* switch does not know
MessageInputs ==
  {[type |-> "render", buffer |-> b, tasks |-> <<Task(p, "bitmap")>>] :
     b \in Buffers, p \in {0, DocPages}}
  \cup {[type |-> "export", buffer |-> "good", tasks |-> t] : t \in TaskLists}
  \cup {[type |-> "load", buffer |-> b, tasks |-> <<>>] : b \in Buffers}
  \cup {[type |-> "ping", buffer |-> "good", tasks |-> <<>>]}

KnownTypes == {"render", "export", "load"}

\* the try block of self.onmessage up to the response: the switch
HandleMessage(m) ==
  IF m.type \in KnownTypes THEN WorkerCompute(m.type, m.buffer, m.tasks)
  ELSE Failure("unknown message type")

SuccessResponse(id, data) ==
  [id |-> id, success |-> TRUE, data |-> data, error |-> None]

ErrorResponse(id, error) ==
  [id |-> id, success |-> FALSE, data |-> <<>>, error |-> error]

MsgInit ==
  /\ RangeUnused
  /\ GeoUnused
  /\ CoordUnused
  /\ SvgUnused
  /\ CropUnused
  /\ CacheUnused
  /\ StoreUnused
  /\ ViewUnused
  /\ AcquireUnused
  /\ MsgUnused
  /\ kind = "worker"
  /\ pc = "idle"

\* a message arrives: the handler starts; a message of an unknown type
\* throws in the switch before any await, and the catch block answers
OnMessage(m) ==
  /\ kind = "worker"
  /\ Len(inbox) < MaxMessages
  /\ LET id == Len(inbox) + 1
     IN IF m.type \in KnownTypes
        THEN /\ inbox' = Append(inbox, [id |-> id, msg |-> m, st |-> "working"])
             /\ UNCHANGED outbox
        ELSE /\ inbox' = Append(inbox, [id |-> id, msg |-> m, st |-> "done"])
             /\ outbox' = Append(outbox, ErrorResponse(id, HandleMessage(m).error))
  /\ UNCHANGED <<kind, pc, rangeVars, geoVars, coordVars, svgRun, cropVars,
                 cacheVars, storeVars, viewVars, acquireVars>>

\* a handler whose catch block posts nothing
Respond_SilentCatch(i, malfunction, postThrows) ==
  /\ kind = "worker"
  /\ i \in DOMAIN inbox
  /\ inbox[i].st = "working"
  /\ LET r == HandleMessage(inbox[i].msg)
     IN outbox' = IF r.ok /\ ~malfunction /\ ~postThrows
                  THEN Append(outbox, SuccessResponse(inbox[i].id, r.value))
                  ELSE outbox
  /\ inbox' = [inbox EXCEPT ![i].st = "done"]
  /\ UNCHANGED <<kind, pc, rangeVars, geoVars, coordVars, svgRun, cropVars,
                 cacheVars, storeVars, viewVars, acquireVars>>

\* the awaited work of a handler ends and the handler posts its response:
\* the success response, or, from the catch block, the error response when
\* the work threw (by its inputs or by a malfunction of the worker) or when
\* posting the success response threw
Respond(i, malfunction, postThrows) ==
  /\ kind = "worker"
  /\ i \in DOMAIN inbox
  /\ inbox[i].st = "working"
  /\ LET r == HandleMessage(inbox[i].msg)
     IN outbox' = Append(outbox,
          IF ~r.ok THEN ErrorResponse(inbox[i].id, r.error)
          ELSE IF malfunction THEN ErrorResponse(inbox[i].id, "worker")
          ELSE IF postThrows THEN ErrorResponse(inbox[i].id, "postMessage")
          ELSE SuccessResponse(inbox[i].id, r.value))
  /\ inbox' = [inbox EXCEPT ![i].st = "done"]
  /\ UNCHANGED <<kind, pc, rangeVars, geoVars, coordVars, svgRun, cropVars,
                 cacheVars, storeVars, viewVars, acquireVars>>

MsgNext ==
  \/ \E m \in MessageInputs : OnMessage(m)
  \/ \E i \in 1..MaxMessages, malfunction \in BOOLEAN, postThrows \in BOOLEAN :
       Respond(i, malfunction, postThrows)

MsgSpec == MsgInit /\ [][MsgNext]_vars

(***************************************************************************)
(* Properties of the message handler.                                      *)
(***************************************************************************)
ResponsesTo(id) == {k \in DOMAIN outbox : outbox[k].id = id}

\* C39: for every message the worker receives, of a known or an unknown
\* type, it posts exactly one response carrying the message's id: success
\* with the result when the work succeeded, failure with an error message
\* when anything failed; never two responses, never none.
C39_OneResponse ==
  /\ \A k \in DOMAIN outbox : outbox[k].id \in {inbox[i].id : i \in DOMAIN inbox}
  /\ \A i \in DOMAIN inbox :
       LET r == HandleMessage(inbox[i].msg)
       IN /\ Cardinality(ResponsesTo(inbox[i].id))
               = IF inbox[i].st = "done" THEN 1 ELSE 0
          /\ \A k \in ResponsesTo(inbox[i].id) :
               /\ outbox[k].success => (r.ok /\ outbox[k].data = r.value)
               /\ ~r.ok => (~outbox[k].success /\ outbox[k].error = r.error)
               /\ ~outbox[k].success => outbox[k].error # None

\* a batch with a task that fails was answered with an error while the
\* handler of an earlier message was still at work
C39_Witness ==
  /\ Len(inbox) = 2
  /\ inbox[1].st = "working"
  /\ inbox[2].msg.type = "export"
  /\ inbox[2].st = "done"
  /\ Len(outbox) = 1
  /\ outbox[1].id = 2
  /\ ~outbox[1].success
  /\ ~HandleMessage(inbox[2].msg).ok

(***************************************************************************)
(* Acquisition of the vector renderer: ensureSvgGraphics (pdfLoader.ts     *)
(* 144-181) and its copy in the worker, ensureWorkerSvgGraphics            *)
(* (render.worker.ts 70-106).  A strategy of the list yields a renderer,   *)
(* yields nothing, or throws; what each does is fixed for a run.  A call   *)
(* awaits one strategy at a time, so two calls interleave.                 *)
(***************************************************************************)
\* ensureSvgGraphics calls in one run
MaxEnsureCalls == 2
\* the strategies in svgLoaders
LoaderCount == 3

LoaderOutcomes == {"ctor", "nothing", "throws"}

AcquireInit ==
  /\ RangeUnused
  /\ GeoUnused
  /\ CoordUnused
  /\ SvgUnused
  /\ CropUnused
  /\ CacheUnused
  /\ StoreUnused
  /\ ViewUnused
  /\ MsgUnused
  /\ kind = "acquire"
  /\ pc = "idle"
  /\ svgGraphicsCtor = 0
  /\ svgLoaders \in [1..LoaderCount -> LoaderOutcomes]
  /\ ensureCalls = <<>>

\* ensureSvgGraphics up to its first await: return the cached renderer, or
\* call the first strategy
EnsureSvgGraphics ==
  /\ kind = "acquire"
  /\ Len(ensureCalls) < MaxEnsureCalls
  /\ ensureCalls' = Append(ensureCalls,
       IF svgGraphicsCtor # 0
       THEN [st |-> "returned", pos |-> 0, tried |-> <<>>, warned |-> <<>>,
             cached |-> TRUE, result |-> svgGraphicsCtor]
       ELSE [st |-> "awaiting", pos |-> 1, tried |-> <<1>>, warned |-> <<>>,
             cached |-> FALSE, result |-> 0])
  /\ UNCHANGED <<svgGraphicsCtor, svgLoaders, kind, pc, rangeVars, geoVars,
                 coordVars, svgRun, cropVars, cacheVars, storeVars, viewVars,
                 msgVars>>

\* the end of the loop: throw unless a renderer is cached
AfterLoop(c, ctor) ==
  IF ctor = 0 THEN [c EXCEPT !.st = "thrown"]
  ELSE [c EXCEPT !.st = "returned", !.result = ctor]

\* the loop entering its next turn, or ending
NextTurn(c, ctor) ==
  IF c.pos < LoaderCount
  THEN [c EXCEPT !.pos = c.pos + 1, !.tried = Append(c.tried, c.pos + 1)]
  ELSE AfterLoop(c, ctor)

\* the awaited strategy yields a renderer that is returned and not cached
LoaderSettles_NoCache(i) ==
  /\ kind = "acquire"
  /\ i \in DOMAIN ensureCalls
  /\ ensureCalls[i].st = "awaiting"
  /\ LET c == ensureCalls[i]
         outcome == svgLoaders[c.pos]
     IN ensureCalls' = [ensureCalls EXCEPT ![i] =
          IF outcome = "ctor" THEN [c EXCEPT !.st = "returned", !.result = c.pos]
          ELSE IF outcome = "throws"
          THEN NextTurn([c EXCEPT !.warned = Append(c.warned, c.pos)], svgGraphicsCtor)
          ELSE NextTurn(c, svgGraphicsCtor)]
  /\ UNCHANGED <<svgGraphicsCtor, svgLoaders, kind, pc, rangeVars, geoVars,
                 coordVars, svgRun, cropVars, cacheVars, storeVars, viewVars,
                 msgVars>>

\* the strategy a call awaits settles: a renderer is cached and ends the
\* loop; a throw is caught and logged with console.warn; nothing, or a
\* throw, lets the loop go on
LoaderSettles(i) ==
  /\ kind = "acquire"
  /\ i \in DOMAIN ensureCalls
  /\ ensureCalls[i].st = "awaiting"
  /\ LET c == ensureCalls[i]
         outcome == svgLoaders[c.pos]
     IN IF outcome = "ctor"
        THEN /\ svgGraphicsCtor' = c.pos
             /\ ensureCalls' = [ensureCalls EXCEPT ![i] = AfterLoop(c, c.pos)]
        ELSE /\ UNCHANGED svgGraphicsCtor
             /\ ensureCalls' = [ensureCalls EXCEPT ![i] =
                  IF outcome = "throws"
                  THEN NextTurn([c EXCEPT !.warned = Append(c.warned, c.pos)],
                                svgGraphicsCtor)
                  ELSE NextTurn(c, svgGraphicsCtor)]
  /\ UNCHANGED <<svgLoaders, kind, pc, rangeVars, geoVars, coordVars, svgRun,
                 cropVars, cacheVars, storeVars, viewVars, msgVars>>

AcquireNext ==
  \/ EnsureSvgGraphics
  \/ \E i \in 1..MaxEnsureCalls : LoaderSettles(i)

AcquireSpec == AcquireInit /\ [][AcquireNext]_vars

(***************************************************************************)
(* Properties of the acquisition of the vector renderer.                   *)
(***************************************************************************)
Yielding == {k \in 1..LoaderCount : svgLoaders[k] = "ctor"}

FirstYielding == CHOOSE k \in Yielding : \A j \in Yielding : k <= j

\* the strategies are tried strictly in list order
TriedInOrder ==
  \A i \in DOMAIN ensureCalls :
    ensureCalls[i].tried = [k \in 1..Len(ensureCalls[i].tried) |-> k]

\* a call stops at the first strategy that yields, which is cached
StopsAtFirstYield ==
  \A i \in DOMAIN ensureCalls :
    (ensureCalls[i].st = "returned" /\ ~ensureCalls[i].cached)
      => /\ Yielding # {}
         /\ ensureCalls[i].result = FirstYielding
         /\ Len(ensureCalls[i].tried) = FirstYielding
         /\ svgGraphicsCtor = FirstYielding

\* a call made when a renderer is cached returns it and tries nothing
CachedIsReturned ==
  \A i \in DOMAIN ensureCalls :
    ensureCalls[i].cached
      => /\ ensureCalls[i].st = "returned"
         /\ ensureCalls[i].tried = <<>>
         /\ ensureCalls[i].result = FirstYielding

\* the error is raised only when every strategy was tried without success
ThrowsWhenExhausted ==
  \A i \in DOMAIN ensureCalls :
    /\ ensureCalls[i].st = "thrown"
         => (Len(ensureCalls[i].tried) = LoaderCount /\ Yielding = {})
    /\ (ensureCalls[i].st = "awaiting" /\ Yielding = {})
         => ensureCalls[i].pos <= LoaderCount

\* the strategies of call i that have settled without a renderer
Missed(i) ==
  {k \in 1..Len(ensureCalls[i].tried) :
     /\ svgLoaders[k] # "ctor"
     /\ (ensureCalls[i].st = "awaiting" => k < ensureCalls[i].pos)}

Warned(i) == {ensureCalls[i].warned[k] : k \in DOMAIN ensureCalls[i].warned}

StartRect == overlay.dragStart[1]

\* the rectangle the last mouse move of the handle drag published
MovedRect == adjusted[1].rect

\* a mouse move of a drag of one of the handles hs has published a rectangle
Dragged(hs) ==
  /\ adjusted # <<>>
  /\ overlay.isDragging
  /\ overlay.dragHandle \in hs

\* two numbers are equal
SameNumber(a, b) == RLeq(a, b) /\ RLeq(b, a)

\* C36: dragging the move pseudo-handle translates the whole rectangle: for
\* every drag delta the published rectangle has the canvas width and height
\* it had at drag start, and only x and y change.
C36_MoveKeepsSize ==
  Dragged({"move"}) =>
    /\ SameNumber(MovedRect.w, StartRect.w)
    /\ SameNumber(MovedRect.h, StartRect.h)

\* C37: a resize handle moves the edges it names and keeps the opposite
\* edges for every drag delta: w, nw and sw leave the right edge x + w where
\* it was at drag start, n, nw and ne leave the bottom edge y + h where it
\* was, and e, s and se leave x and y unchanged.
C37_OppositeEdgesFixed ==
  /\ Dragged({"w", "nw", "sw"}) =>
       SameNumber(RAdd(MovedRect.x, MovedRect.w), RAdd(StartRect.x, StartRect.w))
  /\ Dragged({"n", "nw", "ne"}) =>
       SameNumber(RAdd(MovedRect.y, MovedRect.h), RAdd(StartRect.y, StartRect.h))
  /\ Dragged({"e", "s", "se"}) =>
       /\ SameNumber(MovedRect.x, StartRect.x)
       /\ SameNumber(MovedRect.y, StartRect.y)

(***************************************************************************)
(* The page the viewer shows.                                              *)
(***************************************************************************)
\* C40: after any sequence of openFile, page deletion, thumbnail selection
\* and keyboard or toolbar navigation, currentPage is null or an index that
\* is still in pageOrder, so the viewer never shows a deleted page.
C40_CurrentPagePresent ==
  kind = "store" => (currentPage = 0 - 1 \/ currentPage \in Range(pageOrder))

(***************************************************************************)
(* The whole model: a run exercises one of the modules.                    *)
(***************************************************************************)
Init == RangeInit \/ GeoInit \/ CoordInit \/ SvgInit \/ CropInit \/ CacheInit \/ StoreInit \/ ViewInit \/ MsgInit \/ AcquireInit

Next == RangeNext \/ GeoNext \/ CoordNext \/ SvgNext \/ CropNext \/ CacheNext \/ StoreNext \/ ViewNext \/ MsgNext \/ AcquireNext

Spec == Init /\ [][Next]_vars

=============================================================================
